---------------------------- MODULE Spec2Model ----------------------------
(***************************************************************************)
(* Resume parser service (python-services/resume_parser): the /parse       *)
(* handler of main.py, the Affinda adapter of affinda_client.py and the    *)
(* regex extractors of contact_mapper.py.                                  *)
(*                                                                         *)
(* A text is a sequence of one-character strings.  A regular expression    *)
(* is a tree of nodes matched by backtracking in the order Python's re     *)
(* module tries the alternatives (greedy repetition first, alternatives    *)
(* left to right, leftmost start first).                                   *)
(***************************************************************************)
EXTENDS Integers, Sequences, FiniteSets, TLC

VARIABLES pc, text, phone, skills, extracted_info, heap, obj,
          candidate_keys, found, file_path, affinda_key, file_extension,
          file_content, affinda_outcome, affinda_response, extracted_text,
          contact_info, response, calls, requests

vars ==
    <<pc, text, phone, skills, extracted_info,
      heap, obj, candidate_keys, found, file_path, affinda_key,
      file_extension, file_content, affinda_outcome, affinda_response,
      extracted_text, contact_info, response, calls, requests>>

\* ------------------------------------------------------------ characters

Digits == {"0", "1", "2", "3", "4", "5", "6", "7", "8", "9"}

UpperSeq == <<"A", "B", "C", "D", "E", "F", "G", "H", "I", "J", "K", "L", "M",
              "N", "O", "P", "Q", "R", "S", "T", "U", "V", "W", "X", "Y", "Z">>

LowerSeq == <<"a", "b", "c", "d", "e", "f", "g", "h", "i", "j", "k", "l", "m",
              "n", "o", "p", "q", "r", "s", "t", "u", "v", "w", "x", "y", "z">>

Uppers == {UpperSeq[i] : i \in DOMAIN UpperSeq}

Lowers == {LowerSeq[i] : i \in DOMAIN LowerSeq}

Letters == Uppers \cup Lowers

\* \s of the re module (the ASCII part).
Whitespace == {" ", "\t", "\n", "\r", "\f"}

\* \w of the re module (the ASCII part).
WordChars == Letters \cup Digits \cup {"_"}

\* str.lower() on one character.
LowerChar(c) ==
    IF c \in Uppers
    THEN LowerSeq[CHOOSE i \in DOMAIN UpperSeq : UpperSeq[i] = c]
    ELSE c

\* str.upper() on one character.
UpperChar(c) ==
    IF c \in Lowers
    THEN UpperSeq[CHOOSE i \in DOMAIN LowerSeq : LowerSeq[i] = c]
    ELSE c

\* str.lower()
Lower(s) == [i \in DOMAIN s |-> LowerChar(s[i])]

\* Optional[str]: None, or a string.
None == [isNone |-> TRUE, s |-> <<>>]

Some(s) == [isNone |-> FALSE, s |-> s]

Max(a, b) == IF a >= b THEN a ELSE b

\* The element of a set of one element.
The(S) == CHOOSE x \in S : TRUE

\* ---------------------------------------------------- regular expressions

\* A node of a pattern.  hi = -1 is an unbounded repetition.
ReNode(t, cs, neg, lo, hi, sub) ==
    [t |-> t, cs |-> cs, neg |-> neg, lo |-> lo, hi |-> hi, sub |-> sub]

\* [abc]
In(cs) == ReNode("cls", cs, FALSE, 1, 1, <<>>)

\* [^abc]
NotIn(cs) == ReNode("cls", cs, TRUE, 1, 1, <<>>)

\* a literal character
Ch(c) == In({c})

\* x{lo,hi}, greedy
Rep(x, lo, hi) == ReNode("rep", {}, FALSE, lo, hi, <<x>>)

\* x?
Opt(x) == Rep(x, 0, 1)

\* x*
Star(x) == Rep(x, 0, -1)

\* x+
Plus(x) == Rep(x, 1, -1)

\* (?:xyz)
Cat(xs) == ReNode("seq", {}, FALSE, 1, 1, xs)

\* (?:x|y)
Alt(xs) == ReNode("alt", {}, FALSE, 1, 1, xs)

\* (xyz): capturing group 1
Group(xs) ==
    ReNode("seq", {}, FALSE, 1, 1,
           <<ReNode("gs", {}, FALSE, 1, 1, <<>>)>> \o xs
              \o <<ReNode("ge", {}, FALSE, 1, 1, <<>>)>>)

\* \b
WordBoundary == ReNode("bow", {}, FALSE, 1, 1, <<>>)

\* ^ (without re.MULTILINE)
LineStart == ReNode("bol", {}, FALSE, 1, 1, <<>>)

\* $ (without re.MULTILINE)
LineEnd == ReNode("eol", {}, FALSE, 1, 1, <<>>)

\* A literal string, character by character (re.escape of a header).
Lit(s) == Cat([i \in DOMAIN s |-> Ch(s[i])])

NoMatch == [ok |-> FALSE, s |-> 0, e |-> 0, gs |-> 0, ge |-> 0]

\* Whether character c is in the class of node n; ic is re.IGNORECASE.
InClass(n, c, ic) ==
    LET hit == IF ic
               THEN \E d \in n.cs : LowerChar(d) = LowerChar(c)
               ELSE c \in n.cs
    IN  IF n.neg THEN ~hit ELSE hit

IsWordAt(t, i) == i >= 1 /\ i <= Len(t) /\ t[i] \in WordChars

\* The characters of the class of node n that follow each other from
\* position i on, at most hi of them when hi is not -1.
ClassRun(t, ic, n, i, hi) ==
    LET stops == {j \in i..Len(t) : ~InClass(n, t[j], ic)}
        end == IF stops = {}
               THEN Len(t) + 1
               ELSE CHOOSE j \in stops : \A k \in stops : j <= k
    IN  IF hi >= 0 /\ end - i > hi THEN hi ELSE end - i

\* The first of the tries (records of a rank k and a result r, lower
\* ranks tried first) that matched.
FirstMatch(tries) ==
    LET hits == {x \in tries : x.r.ok}
    IN  IF hits = {}
        THEN NoMatch
        ELSE (CHOOSE x \in hits : \A y \in hits : x.k <= y.k).r

RECURSIVE ReMatch(_, _, _, _, _)
\* A greedy repetition of a character class: the longest run is tried
\* first, then the shorter ones down to lo characters.
RepeatClass(t, ic, rest, i, k, lo, cap) ==
    The({FirstMatch(tries) :
            tries \in {{[k |-> k - j, r |-> ReMatch(t, ic, rest, i + j, cap)] :
                           j \in lo..k}}})

\* The backtracking matcher: the nodes of todo are matched one after the
\* other from position i of text t; cap holds the start and the bounds of
\* group 1 so far.  The first way to match that Python's re finds is the
\* one returned.
ReMatch(t, ic, todo, i, cap) ==
    IF Len(todo) = 0
    THEN [ok |-> TRUE, s |-> cap.s, e |-> i, gs |-> cap.gs, ge |-> cap.ge]
    ELSE
      LET n == Head(todo)
          rest == Tail(todo)
      IN  CASE n.t = "cls" ->
                 IF i <= Len(t) /\ InClass(n, t[i], ic)
                 THEN ReMatch(t, ic, rest, i + 1, cap)
                 ELSE NoMatch
            [] n.t = "seq" -> ReMatch(t, ic, n.sub \o rest, i, cap)
            [] n.t = "alt" ->
                 The({FirstMatch(tries) :
                         tries \in {{[k |-> k,
                                      r |-> ReMatch(t, ic, <<n.sub[k]>> \o rest,
                                                    i, cap)] :
                                        k \in DOMAIN n.sub}}})
            [] n.t = "rep" /\ n.sub[1].t = "cls" ->
                 RepeatClass(t, ic, rest, i, ClassRun(t, ic, n.sub[1], i, n.hi),
                             n.lo, cap)
            [] n.t = "rep" /\ n.sub[1].t # "cls" ->
                 IF n.hi = 0
                 THEN ReMatch(t, ic, rest, i, cap)
                 ELSE LET more == [n EXCEPT !.lo = Max(0, n.lo - 1),
                                            !.hi = IF n.hi < 0 THEN -1 ELSE n.hi - 1]
                          r == ReMatch(t, ic, <<n.sub[1], more>> \o rest, i, cap)
                      IN  IF r.ok
                          THEN r
                          ELSE IF n.lo = 0
                               THEN ReMatch(t, ic, rest, i, cap)
                               ELSE NoMatch
            [] n.t = "bow" ->
                 IF IsWordAt(t, i - 1) # IsWordAt(t, i)
                 THEN ReMatch(t, ic, rest, i, cap)
                 ELSE NoMatch
            [] n.t = "bol" ->
                 IF i = 1 THEN ReMatch(t, ic, rest, i, cap) ELSE NoMatch
            [] n.t = "eol" ->
                 IF i = Len(t) + 1 \/ (i = Len(t) /\ t[i] = "\n")
                 THEN ReMatch(t, ic, rest, i, cap)
                 ELSE NoMatch
            [] n.t = "gs" -> ReMatch(t, ic, rest, i, [cap EXCEPT !.gs = i])
            [] n.t = "ge" -> ReMatch(t, ic, rest, i, [cap EXCEPT !.ge = i])

\* re.match(pattern, t) from position i: the match, or NoMatch.
MatchAt(t, ic, re, i) ==
    ReMatch(t, ic, <<re>>, i, [s |-> i, gs |-> 0, ge |-> 0])

\* re.search(pattern, t) from position from on: the leftmost match.
SearchFrom(t, ic, re, from) ==
    LET starts == {i \in from..(Len(t) + 1) : MatchAt(t, ic, re, i).ok}
    IN  IF starts = {}
        THEN NoMatch
        ELSE MatchAt(t, ic, re, CHOOSE i \in starts : \A j \in starts : i <= j)

\* re.search(pattern, t)
Search(t, ic, re) == SearchFrom(t, ic, re, 1)

\* match.group(0)
Group0(t, m) == SubSeq(t, m.s, m.e - 1)

\* match.group(1)
Group1(t, m) == SubSeq(t, m.gs, m.ge - 1)

RECURSIVE FindAllFrom(_, _, _, _)
\* re.findall(pattern, t) of a pattern without groups: the non-overlapping
\* matches from left to right, each as the matched string.
FindAllFrom(t, ic, re, from) ==
    IF from > Len(t) + 1
    THEN <<>>
    ELSE LET m == SearchFrom(t, ic, re, from)
         IN  IF ~m.ok
             THEN <<>>
             ELSE <<Group0(t, m)>>
                    \o FindAllFrom(t, ic, re, IF m.e = m.s THEN m.e + 1 ELSE m.e)

FindAll(t, ic, re) == FindAllFrom(t, ic, re, 1)

\* re.sub(r'[class]', '', s): s without the characters of the class.
RemoveClass(s, n) == SelectSeq(s, LAMBDA c : ~InClass(n, c, FALSE))

\* ------------------------------------------------------- contact_mapper.py

SepDashSpaceDot == In({"-", "."} \cup Whitespace)

\* phone_patterns: the five format patterns, in their priority order.
phone_patterns ==
    << \* [\+]?[(]?[0-9]{1,3}[)]?[-\s\.]?[(]?[0-9]{1,4}[)]?[-\s\.]?[0-9]{1,4}[-\s\.]?[0-9]{1,9}
       Cat(<<Opt(Ch("+")), Opt(Ch("(")), Rep(In(Digits), 1, 3), Opt(Ch(")")),
             Opt(SepDashSpaceDot), Opt(Ch("(")), Rep(In(Digits), 1, 4),
             Opt(Ch(")")), Opt(SepDashSpaceDot), Rep(In(Digits), 1, 4),
             Opt(SepDashSpaceDot), Rep(In(Digits), 1, 9)>>),
       \* \b\d{3}[-.]?\d{3}[-.]?\d{4}\b
       Cat(<<WordBoundary, Rep(In(Digits), 3, 3), Opt(In({"-", "."})),
             Rep(In(Digits), 3, 3), Opt(In({"-", "."})), Rep(In(Digits), 4, 4),
             WordBoundary>>),
       \* \(?\d{3}\)?[-.\s]?\d{3}[-.\s]?\d{4}
       Cat(<<Opt(Ch("(")), Rep(In(Digits), 3, 3), Opt(Ch(")")),
             Opt(SepDashSpaceDot), Rep(In(Digits), 3, 3), Opt(SepDashSpaceDot),
             Rep(In(Digits), 4, 4)>>),
       \* \+\d{1,3}\s?\d{1,14}
       Cat(<<Ch("+"), Rep(In(Digits), 1, 3), Opt(In(Whitespace)),
             Rep(In(Digits), 1, 14)>>),
       \* \b\d{10,14}\b
       Cat(<<WordBoundary, Rep(In(Digits), 10, 14), WordBoundary>>) >>

\* re.sub(r'[^\d+]', '', phone)
CleanPhone(p) == RemoveClass(p, NotIn(Digits \cup {"+"}))

\* The length the cleaned candidate must reach.
MinPhoneLen == 10

RECURSIVE PhoneFrom(_, _)
\* The loop of extract_phone from pattern k on: of each pattern only the
\* first match is looked at.
PhoneFrom(t, k) ==
    IF k > Len(phone_patterns)
    THEN None
    ELSE LET matches == FindAll(t, FALSE, phone_patterns[k])
         IN  IF Len(matches) > 0 /\ Len(CleanPhone(matches[1])) >= MinPhoneLen
             THEN Some(matches[1])
             ELSE PhoneFrom(t, k + 1)

extract_phone(t) == PhoneFrom(t, 1)

\* str.strip(chars): s without its leading and trailing characters of cs.
StripChars(s, cs) ==
    LET keep == {i \in DOMAIN s : s[i] \notin cs}
    IN  IF keep = {}
        THEN <<>>
        ELSE SubSeq(s, CHOOSE i \in keep : \A j \in keep : i <= j,
                       CHOOSE i \in keep : \A j \in keep : i >= j)

\* str.strip()
Strip(s) == StripChars(s, Whitespace)

RECURSIVE SplitOn(_, _)
\* re.split(r'[class]', s) for a class of single characters: the pieces
\* between the delimiters, the empty ones included.
SplitOn(s, cs) ==
    LET cuts == {i \in DOMAIN s : s[i] \in cs}
    IN  IF cuts = {}
        THEN <<s>>
        ELSE LET c == CHOOSE i \in cuts : \A j \in cuts : i <= j
             IN  <<SubSeq(s, 1, c - 1)>> \o SplitOn(SubSeq(s, c + 1, Len(s)), cs)

\* The bullet characters of the split pattern, U+2022 and U+00B7.
Bullet == "<U+2022>"

MiddleDot == "<U+00B7>"

\* skill_headers, in their priority order.
skill_headers ==
    << <<"S", "k", "i", "l", "l", "s", ":">>,
       <<"T", "e", "c", "h", "n", "i", "c", "a", "l", " ",
         "S", "k", "i", "l", "l", "s", ":">>,
       <<"C", "o", "r", "e", " ", "C", "o", "m", "p", "e", "t", "e", "n", "c",
         "i", "e", "s", ":">>,
       <<"E", "x", "p", "e", "r", "t", "i", "s", "e", ":">>,
       <<"T", "e", "c", "h", "n", "o", "l", "o", "g", "i", "e", "s", ":">>,
       <<"P", "r", "o", "g", "r", "a", "m", "m", "i", "n", "g", " ",
         "L", "a", "n", "g", "u", "a", "g", "e", "s", ":">> >>

\* f'{re.escape(header)}\\s*([^\\n]+(?:\\n[^\\n]+)*)'
SkillPattern(header) ==
    Cat(<<Lit(header), Star(In(Whitespace)),
          Group(<<Plus(NotIn({"\n"})),
                  Star(Cat(<<Ch("\n"), Plus(NotIn({"\n"}))>>))>>)>>)

\* The longest skill kept is one character shorter than this.
SkillLenLimit == 50

\* The number of skills returned at most.
SkillLimit == 20

\* The test of line 223 on one trimmed item.
KeepSkill(skill) == Len(skill) > 0 /\ Len(skill) < SkillLenLimit /\ Len(skill) > 1

\* The inner loop of extract_skills: the items of the section, trimmed,
\* those that pass the test.
SkillItems(skill_text) ==
    LET skill_items == SplitOn(skill_text, {",", ";", "|", "\n", Bullet, MiddleDot})
        trimmed == [i \in DOMAIN skill_items |->
                       Strip(StripChars(skill_items[i], {" ", "-"}))]
    IN  SelectSeq(trimmed, KeepSkill)

RECURSIVE SkillsFrom(_, _)
\* The loop over skill_headers from header k on: the first header found
\* in the text gives the section, and the loop ends there.
SkillsFrom(t, k) ==
    IF k > Len(skill_headers)
    THEN <<>>
    ELSE LET m == Search(t, TRUE, SkillPattern(skill_headers[k]))
         IN  IF m.ok THEN SkillItems(Group1(t, m)) ELSE SkillsFrom(t, k + 1)

RECURSIVE DedupExact(_, _)
\* A de-duplication that compares the spellings as written, letter case
\* included.
DedupExact(items, seen) ==
    IF Len(items) = 0
    THEN <<>>
    ELSE IF Head(items) \in seen
         THEN DedupExact(Tail(items), seen)
         ELSE <<Head(items)>> \o DedupExact(Tail(items), seen \cup {Head(items)})

RECURSIVE Dedup(_, _)
\* The de-duplication loop: a skill is kept when its lower-case form was
\* not seen before.
Dedup(items, seen) ==
    IF Len(items) = 0
    THEN <<>>
    ELSE IF Lower(Head(items)) \in seen
         THEN Dedup(Tail(items), seen)
         ELSE <<Head(items)>> \o Dedup(Tail(items), seen \cup {Lower(Head(items))})

\* unique_skills[:20]
FirstN(s, n) == SubSeq(s, 1, IF Len(s) < n THEN Len(s) ELSE n)

extract_skills(t) == FirstN(Dedup(SkillsFrom(t, 1), {}), SkillLimit)

\* The literal alternatives (?:a|b|...) of a list of strings, in order.
AnyOf(ss) == Alt([i \in DOMAIN ss |-> Lit(ss[i])])

\* [A-Za-z0-9._%+-]
EmailLocalChars == Letters \cup Digits \cup {".", "_", "%", "+", "-"}

\* [A-Za-z0-9.-]
EmailDomainChars == Letters \cup Digits \cup {".", "-"}

\* \b[A-Za-z0-9._%+-]+@[A-Za-z0-9.-]+\.[A-Z|a-z]{2,}\b
email_pattern ==
    Cat(<<WordBoundary, Plus(In(EmailLocalChars)), Ch("@"),
          Plus(In(EmailDomainChars)), Ch("."), Rep(In(Letters \cup {"|"}), 2, -1),
          WordBoundary>>)

extract_email(t) ==
    LET matches == FindAll(t, FALSE, email_pattern)
    IN  IF Len(matches) > 0 THEN Some(Lower(matches[1])) ELSE None

\* [A-Z][a-z]+
CapWord == Cat(<<In(Uppers), Plus(In(Lowers))>>)

\* [A-Z][a-z]+(?:\s+[A-Z][a-z]+){1,3}
CapWords == Cat(<<CapWord, Rep(Cat(<<Plus(In(Whitespace)), CapWord>>), 1, 3)>>)

name_titles ==
    << <<"M", "r", ".">>,
       <<"M", "s", ".">>,
       <<"M", "r", "s", ".">>,
       <<"D", "r", ".">>,
       <<"P", "r", "o", "f", ".">> >>

\* name_patterns, in their order.
name_patterns ==
    << \* ^([A-Z][a-z]+(?:\s+[A-Z][a-z]+){1,3})$
       Cat(<<LineStart, Group(<<CapWords>>), LineEnd>>),
       \* ^([A-Z][a-z]+\s+[A-Z]\.\s+[A-Z][a-z]+)$
       Cat(<<LineStart,
             Group(<<CapWord, Plus(In(Whitespace)), In(Uppers), Ch("."),
                     Plus(In(Whitespace)), CapWord>>),
             LineEnd>>),
       \* ^(?:Mr\.|Ms\.|Mrs\.|Dr\.|Prof\.)?\s*([A-Z][a-z]+(?:\s+[A-Z][a-z]+){1,3})
       Cat(<<LineStart, Opt(AnyOf(name_titles)), Star(In(Whitespace)),
             Group(<<CapWords>>)>>) >>

\* [\d@#$%^&*()_+=\[\]{}|\\:";\'<>?,/]
NameForbidden ==
    In(Digits \cup {"@", "#", "$", "%", "^", "&", "*", "(", ")", "_", "+", "=",
                    "[", "]", "{", "}", "|", "\\", ":", "\"", ";", "'", "<",
                    ">", "?", ",", "/"})

name_headers ==
    << <<"N", "a", "m", "e", ":">>,
       <<"F", "u", "l", "l", " ", "N", "a", "m", "e", ":">>,
       <<"C", "a", "n", "d", "i", "d", "a", "t", "e", " ", "N", "a", "m",
         "e", ":">>,
       <<"A", "p", "p", "l", "i", "c", "a", "n", "t", ":">> >>

\* f'{re.escape(header)}\\s*([A-Za-z\\s]+)'
NameHeaderPattern(header) ==
    Cat(<<Lit(header), Star(In(Whitespace)),
          Group(<<Plus(In(Letters \cup Whitespace))>>)>>)

RECURSIVE Words(_)
\* str.split(): the maximal runs of characters that are not whitespace.
Words(s) ==
    LET t == Strip(s)
        gaps == {i \in DOMAIN t : t[i] \in Whitespace}
    IN  IF Len(t) = 0
        THEN <<>>
        ELSE IF gaps = {}
             THEN <<t>>
             ELSE LET g == CHOOSE i \in gaps : \A j \in gaps : i <= j
                  IN  <<SubSeq(t, 1, g - 1)>> \o Words(SubSeq(t, g + 1, Len(t)))

\* The first lines of the text looked at for a name.
NameLines == 10

\* The bounds of lines 90, 103 and 113.
NameLineMax == 50

NameLineMin == 3

NameWordsMin == 2

NameWordsMax == 4

RECURSIVE NameInLine(_, _)
\* The loop over name_patterns on one line, from pattern k on.
NameInLine(line, k) ==
    IF k > Len(name_patterns)
    THEN None
    ELSE LET m == MatchAt(line, FALSE, name_patterns[k], 1)
             name == Group1(line, m)
         IN  IF m.ok /\ NameWordsMin <= Len(Words(name)) /\ Len(Words(name)) <= NameWordsMax
             THEN Some(Strip(name))
             ELSE NameInLine(line, k + 1)

RECURSIVE NameInLines(_, _)
\* The loop over the first lines, from line i on.
NameInLines(lines, i) ==
    IF i > Len(lines) \/ i > NameLines
    THEN None
    ELSE LET line == Strip(lines[i])
             skip == Len(line) > NameLineMax \/ Len(line) < NameLineMin
                        \/ Search(line, FALSE, NameForbidden).ok
             hit == IF skip THEN None ELSE NameInLine(line, 1)
         IN  IF hit.isNone THEN NameInLines(lines, i + 1) ELSE hit

RECURSIVE NameAfterHeaderAny(_, _)
\* The fallback loop without the test of line 113.
NameAfterHeaderAny(t, k) ==
    IF k > Len(name_headers)
    THEN None
    ELSE LET m == Search(t, TRUE, NameHeaderPattern(name_headers[k]))
         IN  IF m.ok
             THEN Some(Strip(Group1(t, m)))
             ELSE NameAfterHeaderAny(t, k + 1)

RECURSIVE NameAfterHeader(_, _)
\* The fallback loop over name_headers, from header k on.
NameAfterHeader(t, k) ==
    IF k > Len(name_headers)
    THEN None
    ELSE LET m == Search(t, TRUE, NameHeaderPattern(name_headers[k]))
             name == Strip(Group1(t, m))
         IN  IF m.ok /\ NameWordsMin <= Len(Words(name)) /\ Len(Words(name)) <= NameWordsMax
             THEN Some(name)
             ELSE NameAfterHeader(t, k + 1)

extract_name(t) ==
    LET hit == NameInLines(SplitOn(t, {"\n"}), 1)
    IN  IF hit.isNone THEN NameAfterHeader(t, 1) ELSE hit

\* [A-Za-z0-9\-_]
LinkedinIdChars == Letters \cup Digits \cup {"-", "_"}

\* (?:https?://)?(?:www\.)?linkedin\.com/in/[A-Za-z0-9\-_]+/?
LinkedinUrl ==
    Cat(<<Opt(Cat(<<Lit(<<"h", "t", "t", "p">>), Opt(Ch("s")),
                    Lit(<<":", "/", "/">>)>>)),
          Opt(Lit(<<"w", "w", "w", ".">>)),
          Lit(<<"l", "i", "n", "k", "e", "d", "i", "n", ".", "c", "o", "m",
                "/", "i", "n", "/">>),
          Plus(In(LinkedinIdChars)), Opt(Ch("/"))>>)

\* linkedin_patterns, in their order.
linkedin_patterns ==
    << LinkedinUrl,
       \* linkedin\.com/in/[A-Za-z0-9\-_]+/?
       Cat(<<Lit(<<"l", "i", "n", "k", "e", "d", "i", "n", ".", "c", "o",
                   "m", "/", "i", "n", "/">>),
             Plus(In(LinkedinIdChars)), Opt(Ch("/"))>>),
       \* linkedin\s*:\s*(?:https?://)?(?:www\.)?linkedin\.com/in/[A-Za-z0-9\-_]+/?
       Cat(<<Lit(<<"l", "i", "n", "k", "e", "d", "i", "n">>),
             Star(In(Whitespace)), Ch(":"), Star(In(Whitespace)), LinkedinUrl>>) >>

\* str.startswith(prefix)
StartsWith(s, prefix) ==
    Len(s) >= Len(prefix) /\ SubSeq(s, 1, Len(prefix)) = prefix

RECURSIVE LinkedinFrom(_, _)
\* The loop over linkedin_patterns from pattern k on.
LinkedinFrom(t, k) ==
    IF k > Len(linkedin_patterns)
    THEN None
    ELSE LET m == Search(t, TRUE, linkedin_patterns[k])
             url == Group0(t, m)
         IN  IF m.ok
             THEN IF ~StartsWith(url, <<"h", "t", "t", "p">>)
                  THEN Some(<<"h", "t", "t", "p", "s", ":", "/", "/">> \o url)
                  ELSE Some(url)
             ELSE LinkedinFrom(t, k + 1)

extract_linkedin(t) == LinkedinFrom(t, 1)

street_suffixes ==
    << <<"S", "t", "r", "e", "e", "t">>,
       <<"S", "t">>,
       <<"A", "v", "e", "n", "u", "e">>,
       <<"A", "v", "e">>,
       <<"R", "o", "a", "d">>,
       <<"R", "d">>,
       <<"B", "o", "u", "l", "e", "v", "a", "r", "d">>,
       <<"B", "l", "v", "d">>,
       <<"L", "a", "n", "e">>,
       <<"L", "n">>,
       <<"D", "r", "i", "v", "e">>,
       <<"D", "r">>,
       <<"C", "o", "u", "r", "t">>,
       <<"C", "t">>,
       <<"P", "l", "a", "c", "e">>,
       <<"P", "l">>,
       <<"C", "i", "r", "c", "l", "e">>,
       <<"C", "i", "r">> >>

state_abbreviations ==
    << <<"A", "L">>,
       <<"A", "K">>,
       <<"A", "Z">>,
       <<"A", "R">>,
       <<"C", "A">>,
       <<"C", "O">>,
       <<"C", "T">>,
       <<"D", "E">>,
       <<"F", "L">>,
       <<"G", "A">>,
       <<"H", "I">>,
       <<"I", "D">>,
       <<"I", "L">>,
       <<"I", "N">>,
       <<"I", "A">>,
       <<"K", "S">>,
       <<"K", "Y">>,
       <<"L", "A">>,
       <<"M", "E">>,
       <<"M", "D">>,
       <<"M", "A">>,
       <<"M", "I">>,
       <<"M", "N">>,
       <<"M", "S">>,
       <<"M", "O">>,
       <<"M", "T">>,
       <<"N", "E">>,
       <<"N", "V">>,
       <<"N", "H">>,
       <<"N", "J">>,
       <<"N", "M">>,
       <<"N", "Y">>,
       <<"N", "C">>,
       <<"N", "D">>,
       <<"O", "H">>,
       <<"O", "K">>,
       <<"O", "R">>,
       <<"P", "A">>,
       <<"R", "I">>,
       <<"S", "C">>,
       <<"S", "D">>,
       <<"T", "N">>,
       <<"T", "X">>,
       <<"U", "T">>,
       <<"V", "T">>,
       <<"V", "A">>,
       <<"W", "A">>,
       <<"W", "V">>,
       <<"W", "I">>,
       <<"W", "Y">> >>

\* [A-Za-z\s]+
LettersAndSpaces == Plus(In(Letters \cup Whitespace))

\* address_patterns, in their order.
address_patterns ==
    << \* \b([A-Za-z\s]+,\s*[A-Z]{2}\s+\d{5}(?:-\d{4})?)\b
       Cat(<<WordBoundary,
             Group(<<LettersAndSpaces, Ch(","), Star(In(Whitespace)),
                     Rep(In(Uppers), 2, 2), Plus(In(Whitespace)),
                     Rep(In(Digits), 5, 5),
                     Opt(Cat(<<Ch("-"), Rep(In(Digits), 4, 4)>>))>>),
             WordBoundary>>),
       \* \b([A-Za-z\s]+,\s*[A-Z]{2})\b
       Cat(<<WordBoundary,
             Group(<<LettersAndSpaces, Ch(","), Star(In(Whitespace)),
                     Rep(In(Uppers), 2, 2)>>),
             WordBoundary>>),
       \* \b(\d+\s+[A-Za-z\s]+(?:Street|St|...|Circle|Cir)\.?)\b
       Cat(<<WordBoundary,
             Group(<<Plus(In(Digits)), Plus(In(Whitespace)), LettersAndSpaces,
                     AnyOf(street_suffixes), Opt(Ch("."))>>),
             WordBoundary>>) >>

location_headers ==
    << <<"A", "d", "d", "r", "e", "s", "s", ":">>,
       <<"L", "o", "c", "a", "t", "i", "o", "n", ":">>,
       <<"C", "i", "t", "y", ":">>,
       <<"R", "e", "s", "i", "d", "e", "n", "c", "e", ":">>,
       <<"L", "i", "v", "e", "s", " ", "i", "n", ":">>,
       <<"B", "a", "s", "e", "d", " ", "i", "n", ":">> >>

\* f'{re.escape(header)}\\s*([^\\n]+)'
LocationHeaderPattern(header) ==
    Cat(<<Lit(header), Star(In(Whitespace)), Group(<<Plus(NotIn({"\n"}))>>)>>)

\* A location after a header is taken when it is shorter than this.
LocationLenLimit == 100

\* \b(?:AL|AK|...|WY)\b
state_pattern == Cat(<<WordBoundary, AnyOf(state_abbreviations), WordBoundary>>)

\* f'([A-Za-z\\s]+),?\\s*{state}'
CityPattern(state) ==
    Cat(<<Group(<<LettersAndSpaces>>), Opt(Ch(",")), Star(In(Whitespace)), Lit(state)>>)

RECURSIVE CityBeforeState(_, _, _)
\* The loop over the state abbreviations found, from the i-th on.
CityBeforeState(t, state_matches, i) ==
    IF i > Len(state_matches)
    THEN None
    ELSE LET m == Search(t, FALSE, CityPattern(state_matches[i]))
         IN  IF m.ok
             THEN Some(Strip(Group0(t, m)))
             ELSE CityBeforeState(t, state_matches, i + 1)

RECURSIVE AddressByPattern(_, _)
\* The loop over address_patterns from pattern k on: matches[0] of
\* re.findall is group 1 of the leftmost match.
AddressByPattern(t, k) ==
    IF k > Len(address_patterns)
    THEN CityBeforeState(t, FindAll(t, FALSE, state_pattern), 1)
    ELSE LET m == Search(t, FALSE, address_patterns[k])
         IN  IF m.ok THEN Some(Group1(t, m)) ELSE AddressByPattern(t, k + 1)

RECURSIVE LocationUnchecked(_, _)
\* The loop over location_headers without the test of line 146.
LocationUnchecked(t, k) ==
    IF k > Len(location_headers)
    THEN AddressByPattern(t, 1)
    ELSE LET m == Search(t, TRUE, LocationHeaderPattern(location_headers[k]))
         IN  IF m.ok
             THEN Some(Strip(Group1(t, m)))
             ELSE LocationUnchecked(t, k + 1)

RECURSIVE AddressAfterHeader(_, _)
\* The loop over location_headers from header k on.
AddressAfterHeader(t, k) ==
    IF k > Len(location_headers)
    THEN AddressByPattern(t, 1)
    ELSE LET m == Search(t, TRUE, LocationHeaderPattern(location_headers[k]))
             location == Strip(Group1(t, m))
         IN  IF m.ok /\ Len(location) > 0 /\ Len(location) < LocationLenLimit
             THEN Some(location)
             ELSE AddressAfterHeader(t, k + 1)

extract_address(t) == AddressAfterHeader(t, 1)

\* extract_contact_info(text): the six extractors, each on the whole text.
extract_contact_info(t) ==
    [full_name |-> extract_name(t),
     email |-> extract_email(t),
     phone |-> extract_phone(t),
     address |-> extract_address(t),
     linkedin |-> extract_linkedin(t),
     skills |-> extract_skills(t)]

\* ------------------------------------------------------------ JSON values

(***************************************************************************)
(* The structured response is a heap of nodes: a reference is a positive   *)
(* number, a node is null, a string, a number, a mapping (its entries in   *)
(* insertion order, each a key and the reference of its value) or a        *)
(* sequence (its entries in order, the key unused).  A decoded JSON        *)
(* document is a tree; an object built in memory may refer back to itself. *)
(***************************************************************************)
JNode(t, s, n, items) == [t |-> t, s |-> s, n |-> n, items |-> items]

JNull == JNode("null", <<>>, 0, <<>>)

JStr(s) == JNode("str", s, 0, <<>>)

JNum(n) == JNode("num", <<>>, n, <<>>)

JDict(items) == JNode("dict", <<>>, 0, items)

JList(items) == JNode("list", <<>>, 0, items)

Entry(k, v) == [k |-> k, v |-> v]

\* bool(value) of Python.
Truthy(h, r) ==
    CASE h[r].t = "null" -> FALSE
      [] h[r].t = "str" -> Len(h[r].s) > 0
      [] h[r].t = "num" -> h[r].n # 0
      [] h[r].t = "dict" -> Len(h[r].items) > 0
      [] h[r].t = "list" -> Len(h[r].items) > 0

\* key in obj
HasKey(node, key) == \E i \in DOMAIN node.items : node.items[i].k = key

\* obj[key], for a key of obj
ValueOf(node, key) ==
    node.items[CHOOSE i \in DOMAIN node.items : node.items[i].k = key].v

\* ------------------------------------------------------- _recursive_search

\* The frames the interpreter leaves to _recursive_search before it raises
\* RecursionError.
RecursionLimit == 6

NotFound == [kind |-> "none", ref |-> 0]

Found(r) == [kind |-> "val", ref |-> r]

RecursionError == [kind |-> "err", ref |-> 0]

\* The container keys of line 165, in their order.
Containers ==
    << <<"d", "a", "t", "a">>,
       <<"p", "a", "r", "s", "e", "d">>,
       <<"p", "a", "r", "s", "e", "d", "_", "r", "e", "s", "u", "m", "e">>,
       <<"p", "e", "r", "s", "o", "n", "a", "l">>,
       <<"c", "o", "n", "t", "a", "c", "t">>,
       <<"p", "e", "r", "s", "o", "n", "a", "l", "_", "d", "e", "t", "a", "i", "l", "s">>,
       <<"a", "t", "t", "r", "i", "b", "u", "t", "e", "s">>,
       <<"p", "r", "o", "f", "i", "l", "e">> >>

RECURSIVE FirstAlias(_, _, _, _)
\* for key in candidate_keys: if key in obj and obj[key]: return obj[key]
FirstAlias(h, node, keys, i) ==
    IF i > Len(keys)
    THEN NotFound
    ELSE IF HasKey(node, keys[i]) /\ Truthy(h, ValueOf(node, keys[i]))
         THEN Found(ValueOf(node, keys[i]))
         ELSE FirstAlias(h, node, keys, i + 1)

\* A search that does not look into the container keys first.
ContainersSkipped(h, node, keys, c) == NotFound

RECURSIVE FirstContainer(_, _, _, _)
\* The loop over the container keys: a container that holds a mapping is
\* looked into one level deep.
FirstContainer(h, node, keys, c) ==
    IF c > Len(Containers)
    THEN NotFound
    ELSE LET hit == IF HasKey(node, Containers[c])
                       /\ h[ValueOf(node, Containers[c])].t = "dict"
                    THEN FirstAlias(h, h[ValueOf(node, Containers[c])],
                                    keys, 1)
                    ELSE NotFound
         IN  IF hit.kind = "val"
             THEN hit
             ELSE FirstContainer(h, node, keys, c + 1)

RECURSIVE RecursiveSearch(_, _, _, _)
RECURSIVE SearchChildren(_, _, _, _, _)
\* for v in children: res = _recursive_search(v, candidate_keys);
\* if res: return res.  An exception raised below ends the loop.
SearchChildren(h, items, i, keys, depth) ==
    IF i > Len(items)
    THEN NotFound
    ELSE LET res == RecursiveSearch(h, items[i].v, keys, depth + 1)
         IN  IF res.kind = "err"
             THEN res
             ELSE IF res.kind = "val" /\ Truthy(h, res.ref)
                  THEN res
                  ELSE SearchChildren(h, items, i + 1, keys, depth)

\* A search that descends through mappings only and gives up at a sequence.
SearchMappingsOnly(h, r, keys, depth) ==
    IF depth > RecursionLimit
    THEN RecursionError
    ELSE CASE h[r].t = "dict" ->
                LET direct == FirstAlias(h, h[r], keys, 1)
                    nested == FirstContainer(h, h[r], keys, 1)
                IN  IF direct.kind = "val" THEN direct
                    ELSE IF nested.kind = "val" THEN nested
                    ELSE SearchChildren(h, h[r].items, 1, keys, depth)
           [] OTHER -> NotFound

\* _recursive_search(obj, candidate_keys), obj the node at reference r,
\* called at the given depth of recursion.
RecursiveSearch(h, r, keys, depth) ==
    IF depth > RecursionLimit
    THEN RecursionError
    ELSE CASE h[r].t = "dict" ->
                LET direct == FirstAlias(h, h[r], keys, 1)
                    nested == FirstContainer(h, h[r], keys, 1)
                IN  IF direct.kind = "val" THEN direct
                    ELSE IF nested.kind = "val" THEN nested
                    ELSE SearchChildren(h, h[r].items, 1, keys, depth)
           [] h[r].t = "list" ->
                SearchChildren(h, h[r].items, 1, keys, depth)
           [] OTHER -> NotFound

_recursive_search(h, r, keys) == RecursiveSearch(h, r, keys, 1)

\* The alias lists of lines 197 to 202: name,
NameKeys ==
    << <<"n", "a", "m", "e">>,
       <<"f", "u", "l", "l", "_", "n", "a", "m", "e">>,
       <<"g", "i", "v", "e", "n", "_", "n", "a", "m", "e">>,
       <<"f", "i", "r", "s", "t", "_", "n", "a", "m", "e">>,
       <<"f", "o", "r", "m", "a", "t", "t", "e", "d", "_", "n", "a", "m", "e">> >>

\* email,
EmailKeys ==
    << <<"e", "m", "a", "i", "l">>,
       <<"e", "m", "a", "i", "l", "s">> >>

\* phone,
PhoneKeys ==
    << <<"p", "h", "o", "n", "e">>,
       <<"p", "h", "o", "n", "e", "s">>,
       <<"m", "o", "b", "i", "l", "e">> >>

\* address,
AddressKeys ==
    << <<"a", "d", "d", "r", "e", "s", "s">>,
       <<"l", "o", "c", "a", "t", "i", "o", "n">>,
       <<"l", "o", "c", "a", "t", "i", "o", "n", "s">>,
       <<"a", "d", "d", "r", "e", "s", "s", "e", "s">> >>

\* linkedin
LinkedinKeys ==
    << <<"l", "i", "n", "k", "e", "d", "i", "n">>,
       <<"l", "i", "n", "k", "e", "d", "i", "n", "_", "u", "r", "l">>,
       <<"l", "i", "n", "k", "e", "d", "i", "n", "_", "p", "r", "o", "f", "i", "l", "e">>,
       <<"p", "r", "o", "f", "i", "l", "e", "_", "u", "r", "l">> >>

\* and skills.
SkillsKeys ==
    << <<"s", "k", "i", "l", "l", "s">>,
       <<"s", "k", "i", "l", "l">>,
       <<"k", "e", "y", "w", "o", "r", "d", "s">>,
       <<"e", "x", "p", "e", "r", "t", "i", "s", "e">> >>

\* ------------------------------------------------------------ Python values

(***************************************************************************)
(* A value held by a variable of the handler: None, a string, or an object *)
(* of the structured response that is not a string (a number, a mapping, a *)
(* sequence), given by its reference.                                      *)
(***************************************************************************)
NoneVal == [kind |-> "none", s |-> <<>>, ref |-> 0]

Str(s) == [kind |-> "str", s |-> s, ref |-> 0]

Ref(r) == [kind |-> "ref", s |-> <<>>, ref |-> r]

\* The value at a reference; reference 0 stands for None.
ValueAt(h, r) ==
    IF r = 0 THEN NoneVal
    ELSE CASE h[r].t = "null" -> NoneVal
           [] h[r].t = "str" -> Str(h[r].s)
           [] OTHER -> Ref(r)

\* bool(v)
IsTrue(h, v) ==
    CASE v.kind = "none" -> FALSE
      [] v.kind = "str" -> Len(v.s) > 0
      [] v.kind = "ref" -> Truthy(h, v.ref)

\* An Optional[str] of the extractors as a value.
FromOptional(o) == IF o.isNone THEN NoneVal ELSE Str(o.s)

\* d.get(key): the reference stored under the key, 0 (None) without it.
Get(node, key) == IF HasKey(node, key) THEN ValueOf(node, key) ELSE 0

\* a or b, on references
OrElse(h, a, b) == IF a # 0 /\ Truthy(h, a) THEN a ELSE b

DigitSeq == <<"0", "1", "2", "3", "4", "5", "6", "7", "8", "9">>

RECURSIVE NatText(_)
\* The decimal digits of a natural number.
NatText(n) ==
    IF n < 10 THEN <<DigitSeq[n + 1]>>
    ELSE NatText(n \div 10) \o <<DigitSeq[(n % 10) + 1]>>

\* str(n) of an integer
IntText(n) == IF n < 0 THEN <<"-">> \o NatText(0 - n) ELSE NatText(n)

RECURSIVE Flatten(_)
\* ''.join(ss), one half of ss after the other
Flatten(ss) ==
    IF Len(ss) = 0 THEN <<>>
    ELSE IF Len(ss) = 1 THEN ss[1]
    ELSE LET half == Len(ss) \div 2
         IN  Flatten(SubSeq(ss, 1, half)) \o Flatten(SubSeq(ss, half + 1, Len(ss)))

\* sep.join(parts)
Join(parts, sep) ==
    Flatten([i \in 1..(2 * Len(parts) - 1) |->
                IF i % 2 = 1 THEN parts[(i + 1) \div 2] ELSE sep])

\* ---------------------------------------------------------------- json.dumps

\* One character of a string as json.dumps writes it (ensure_ascii).
JsonChar(c) ==
    CASE c = "\"" -> <<"\\", "\"">>
      [] c = "\\" -> <<"\\", "\\">>
      [] c = "\n" -> <<"\\", "n">>
      [] c = "\t" -> <<"\\", "t">>
      [] c = Bullet -> <<"\\", "u", "2", "0", "2", "2">>
      [] c = MiddleDot -> <<"\\", "u", "0", "0", "b", "7">>
      [] OTHER -> <<c>>

JsonString(s) ==
    <<"\"">> \o Flatten([i \in DOMAIN s |-> JsonChar(s[i])]) \o <<"\"">>

RECURSIVE JsonDumps(_, _)
\* json.dumps(obj) with the default separators, obj the decoded JSON
\* document at reference r (a tree).
JsonDumps(h, r) ==
    CASE h[r].t = "null" -> <<"n", "u", "l", "l">>
      [] h[r].t = "str" -> JsonString(h[r].s)
      [] h[r].t = "num" -> IntText(h[r].n)
      [] h[r].t = "dict" ->
           <<"{">>
           \o Join([i \in DOMAIN h[r].items |->
                       JsonString(h[r].items[i].k) \o <<":", " ">>
                       \o JsonDumps(h, h[r].items[i].v)], <<",", " ">>)
           \o <<"}">>
      [] h[r].t = "list" ->
           <<"[">>
           \o Join([i \in DOMAIN h[r].items |->
                       JsonDumps(h, h[r].items[i].v)], <<",", " ">>)
           \o <<"]">>

\* --------------------------------------------------------------- str, repr

\* One character of a string as repr writes it between the given quotes.
ReprChar(c, quote) ==
    CASE c = quote -> <<"\\", c>>
      [] c = "\\" -> <<"\\", "\\">>
      [] c = "\n" -> <<"\\", "n">>
      [] c = "\t" -> <<"\\", "t">>
      [] OTHER -> <<c>>

\* repr(s) of a string: single quotes, double quotes when the string holds
\* a single quote and no double quote.
ReprString(s) ==
    LET has(c) == \E i \in DOMAIN s : s[i] = c
        quote == IF has("'") /\ ~has("\"") THEN "\"" ELSE "'"
    IN  <<quote>> \o Flatten([i \in DOMAIN s |-> ReprChar(s[i], quote)])
        \o <<quote>>

RECURSIVE PyRepr(_, _)
\* repr(obj)
PyRepr(h, r) ==
    CASE h[r].t = "null" -> <<"N", "o", "n", "e">>
      [] h[r].t = "str" -> ReprString(h[r].s)
      [] h[r].t = "num" -> IntText(h[r].n)
      [] h[r].t = "dict" ->
           <<"{">>
           \o Join([i \in DOMAIN h[r].items |->
                       ReprString(h[r].items[i].k) \o <<":", " ">>
                       \o PyRepr(h, h[r].items[i].v)], <<",", " ">>)
           \o <<"}">>
      [] h[r].t = "list" ->
           <<"[">>
           \o Join([i \in DOMAIN h[r].items |->
                       PyRepr(h, h[r].items[i].v)], <<",", " ">>)
           \o <<"]">>

\* str(obj)
PyStr(h, r) == IF h[r].t = "str" THEN h[r].s ELSE PyRepr(h, r)

\* -------------------------------------------------------- _normalize_skills

RECURSIVE SplitRuns(_, _)
\* re.split of a pattern [...]+ : the pieces between the runs of
\* characters of cs.
SplitRuns(s, cs) ==
    IF \A i \in DOMAIN s : s[i] \notin cs
    THEN <<s>>
    ELSE LET first == CHOOSE i \in DOMAIN s :
                         s[i] \in cs /\ \A j \in 1..(i - 1) : s[j] \notin cs
             after == IF \E j \in first..Len(s) : s[j] \notin cs
                      THEN CHOOSE j \in first..Len(s) :
                              s[j] \notin cs
                              /\ \A k \in first..(j - 1) : s[k] \in cs
                      ELSE Len(s) + 1
         IN  <<SubSeq(s, 1, first - 1)>>
             \o SplitRuns(SubSeq(s, after, Len(s)), cs)

\* The characters of the class [;,|\\n] of line 190, a raw string: the
\* semicolon, the comma, the bar, the backslash and the letter n.
SkillSeparators == {";", ",", "|", "\\", "n"}

\* _normalize_skills(raw), raw the object at reference r, 0 for the empty
\* list that stands in when nothing was found.
_normalize_skills(h, r) ==
    IF r = 0 THEN <<>>
    ELSE CASE h[r].t = "null" -> <<>>
           [] h[r].t = "list" ->
                [i \in DOMAIN h[r].items |-> PyStr(h, h[r].items[i].v)]
           [] h[r].t = "str" ->
                LET pieces == SplitRuns(h[r].s, SkillSeparators)
                    stripped == [i \in DOMAIN pieces |-> Strip(pieces[i])]
                IN  SelectSeq(stripped, LAMBDA p : Len(p) > 0)
           [] OTHER -> <<PyStr(h, r)>>


\* ----------------------------------------------------------- text_extractor

(***************************************************************************)
(* The bytes of a file, by what the libraries make of them: whether        *)
(* pdfplumber opens them and what each page gives (a text, empty for       *)
(* None, or an exception), whether PyPDF2 reads them and its page texts,   *)
(* whether OCR runs and the text of each page image, whether python-docx   *)
(* opens them and the paragraphs and table rows it finds.                  *)
(***************************************************************************)
Document(plumber, pages, pypdf2, pages2, ocr, scans, docx, paragraphs, rows) ==
    [plumber |-> plumber, pages |-> pages, pypdf2 |-> pypdf2,
     pages2 |-> pages2, ocr |-> ocr, scans |-> scans, docx |-> docx,
     paragraphs |-> paragraphs, rows |-> rows]

\* page.extract_text() of pdfplumber: a text or an exception.
PageText(s) == [raised |-> FALSE, s |-> s]

PageError == [raised |-> TRUE, s |-> <<>>]

\* What an extraction returns: a text or an exception, and the parsers it
\* went through.
Extracted(s, tried) == [raised |-> FALSE, s |-> s, tried |-> tried]

ExtractionError(tried) == [raised |-> TRUE, s |-> <<>>, tried |-> tried]

NonBlank(p) == Len(Strip(p)) > 0

NonEmpty(p) == Len(p) > 0

\* extract_text_from_pdf_with_ocr: an exception of any kind gives "".
extract_text_from_pdf_with_ocr(doc) ==
    IF doc.ocr = "raise"
    THEN <<>>
    ELSE Strip(Join(SelectSeq(doc.scans, NonBlank), <<"\n">>))

extract_text_from_pdf(doc) ==
    IF doc.plumber = "ok"
    THEN LET read == SelectSeq(doc.pages, LAMBDA p : ~p.raised /\ Len(p.s) > 0)
             text_content == [i \in DOMAIN read |-> read[i].s]
             full_text == Join(text_content, <<"\n">>)
         IN  IF Len(Strip(full_text)) = 0
             THEN Extracted(extract_text_from_pdf_with_ocr(doc),
                            <<"pdfplumber", "ocr">>)
             ELSE Extracted(Strip(full_text), <<"pdfplumber">>)
    ELSE IF doc.pypdf2 = "ok"
         THEN Extracted(Strip(Join(SelectSeq(doc.pages2, NonEmpty), <<"\n">>)),
                        <<"pdfplumber", "PyPDF2">>)
         ELSE ExtractionError(<<"pdfplumber", "PyPDF2">>)

\* " | ".join of the non-blank cells of a table row, stripped.
RowText(row) ==
    Join(SelectSeq([i \in DOMAIN row |-> Strip(row[i])], NonEmpty), <<" ", "|", " ">>)

extract_text_from_docx(doc) ==
    IF doc.docx = "raise"
    THEN ExtractionError(<<"python-docx">>)
    ELSE LET paragraphs ==
                 SelectSeq([i \in DOMAIN doc.paragraphs |->
                               Strip(doc.paragraphs[i])], NonEmpty)
             table_rows ==
                 SelectSeq([i \in DOMAIN doc.rows |-> RowText(doc.rows[i])],
                           NonEmpty)
         IN  Extracted(Strip(Join(paragraphs \o table_rows, <<"\n">>)),
                       <<"python-docx">>)

\* ----------------------------------------------------------- affinda_client

\* Lines 42 to 47 of parse_with_affinda: the reference of the transcript
\* found in the decoded response, 0 for None.
TranscriptOf(h, data) ==
    IF h[data].t # "dict"
    THEN 0
    ELSE LET top == OrElse(h, OrElse(h, Get(h[data], <<"t", "e", "x", "t">>),
                                        Get(h[data], <<"p", "a", "r", "s", "e", "d", "_", "t", "e", "x", "t">>)),
                           Get(h[data], <<"r", "a", "w", "_", "t", "e", "x", "t">>))
             inner == Get(h[data], <<"d", "a", "t", "a">>)
         IN  IF ~(top # 0 /\ Truthy(h, top)) /\ inner # 0 /\ h[inner].t = "dict"
             THEN OrElse(h, Get(h[inner], <<"t", "e", "x", "t">>), Get(h[inner], <<"r", "a", "w", "_", "t", "e", "x", "t">>))
             ELSE top

\* What the call of the service gives: an exception (transport, timeout,
\* status, decoding) or the decoded document at reference data.
Raised == [raised |-> TRUE, data |-> 0, text |-> 0]

Answered(data, transcript) == [raised |-> FALSE, data |-> data, text |-> transcript]

\* parse_with_affinda, given whether the request to the service succeeded.
parse_with_affinda(h, ok) ==
    IF ok THEN Answered(1, TranscriptOf(h, 1)) ELSE Raised

\* ------------------------------------------------------------- parse_resume

\* Path(file_path).suffix
Suffix(path) ==
    LET slashes == {i \in DOMAIN path : path[i] = "/"}
        start == IF slashes = {} THEN 1
                 ELSE (CHOOSE i \in slashes : \A j \in slashes : j <= i) + 1
        name == SubSeq(path, start, Len(path))
        dots == {i \in DOMAIN name : name[i] = "."}
        last == IF dots = {} THEN 0
                ELSE CHOOSE i \in dots : \A j \in dots : j <= i
    IN  IF 1 < last /\ last < Len(name)
        THEN SubSeq(name, last, Len(name))
        ELSE <<>>

\* The formats of line 108.
SupportedFormats == {<<".", "p", "d", "f">>, <<".", "d", "o", "c", "x">>, <<".", "d", "o", "c">>}

\* The locals extracted_text and affinda_response of parse_resume, and
\* whether an exception is on its way to the handlers of lines 230 to 237.
Locals(raised, txt, resp) ==
    [raised |-> raised, extracted_text |-> txt, affinda_response |-> resp]

\* Lines 121 and 122.
InitialLocals == Locals(FALSE, Str(<<>>), 0)

\* The handler that lets an exception of the call go on to line 232.
Propagate(st) == [st EXCEPT !.raised = TRUE]

\* The handler of lines 137 and 138: a warning is logged and the locals
\* stay as they are.
ExceptAffinda(st) == st

\* A choice that takes the serialized response whatever the transcript.
SerializedAlways(h, data, affinda_text) == Str(JsonDumps(h, data))

\* Lines 128 to 136: the transcript when it is true, the serialized
\* response otherwise (json.dumps of a decoded document raises nothing).
TextAfterAffinda(h, data, affinda_text) ==
    IF affinda_text # 0 /\ Truthy(h, affinda_text)
    THEN ValueAt(h, affinda_text)
    ELSE Str(JsonDumps(h, data))

\* Lines 123 to 138, for a key that is set.
TryAffinda(h, ok) ==
    LET res == parse_with_affinda(h, ok)
    IN  IF res.raised
        THEN ExceptAffinda(InitialLocals)
        ELSE Locals(FALSE, TextAfterAffinda(h, res.data, res.text), res.data)

\* Lines 142 to 145.
LocalText(ext, doc) ==
    IF ext = <<".", "p", "d", "f">>
    THEN extract_text_from_pdf(doc)
    ELSE extract_text_from_docx(doc)

\* A contact_info with nothing in it.
EmptyInfo ==
    [full_name |-> NoneVal, email |-> NoneVal, phone |-> NoneVal,
     address |-> NoneVal, linkedin |-> NoneVal, skills |-> <<>>]

\* Lines 195 to 203: contact_info from the structured response, left empty
\* when the response is false or no mapping.
StructuredInfo(h, root) ==
    IF root = 0 \/ ~Truthy(h, root) \/ h[root].t # "dict"
    THEN EmptyInfo
    ELSE [full_name |-> ValueAt(h, _recursive_search(h, root, NameKeys).ref),
          email |-> ValueAt(h, _recursive_search(h, root, EmailKeys).ref),
          phone |-> ValueAt(h, _recursive_search(h, root, PhoneKeys).ref),
          address |-> ValueAt(h, _recursive_search(h, root, AddressKeys).ref),
          linkedin |-> ValueAt(h, _recursive_search(h, root, LinkedinKeys).ref),
          skills |-> _normalize_skills(h,
                        _recursive_search(h, root, SkillsKeys).ref)]

\* One of the searches of lines 197 to 202 runs out of stack.
LookupRaises(h, root) ==
    /\ root # 0
    /\ Truthy(h, root)
    /\ h[root].t = "dict"
    /\ \E keys \in {NameKeys, EmailKeys, PhoneKeys, AddressKeys, LinkedinKeys,
                    SkillsKeys} :
          _recursive_search(h, root, keys).kind = "err"

\* any(contact_info.values())
AnyValue(h, info) ==
    \/ IsTrue(h, info.full_name)
    \/ IsTrue(h, info.email)
    \/ IsTrue(h, info.phone)
    \/ IsTrue(h, info.address)
    \/ IsTrue(h, info.linkedin)
    \/ Len(info.skills) > 0

\* extract_contact_info(extracted_text) as a contact_info.
RegexInfo(t) ==
    [full_name |-> FromOptional(extract_name(t)),
     email |-> FromOptional(extract_email(t)),
     phone |-> FromOptional(extract_phone(t)),
     address |-> FromOptional(extract_address(t)),
     linkedin |-> FromOptional(extract_linkedin(t)),
     skills |-> extract_skills(t)]

\* The structured contact_info, whatever it holds.
StructuredOnly(h, structured, regex) == structured

\* Lines 206 and 207: the structured contact_info when any of its values
\* is true, the one of the regex extractors otherwise.
ContactInfo(h, structured, regex) ==
    IF AnyValue(h, structured) THEN structured ELSE regex

\* value, with nothing put in the place of a false one
Unchanged(h, v) == v

\* value or ''
OrEmpty(h, v) == IF IsTrue(h, v) THEN v ELSE Str(<<>>)

\* What parse_resume answers: the fields of the response of lines 210 to
\* 224 under status 200, or the status of an HTTPException.
Success(ext, txt, info, h) ==
    [status |-> 200,
     file_type |-> ext,
     text |-> txt,
     name |-> OrEmpty(h, info.full_name),
     email |-> OrEmpty(h, info.email),
     phone |-> OrEmpty(h, info.phone),
     address |-> OrEmpty(h, info.address),
     linkedin |-> OrEmpty(h, info.linkedin),
     skills |-> info.skills,
     text_length |-> IF txt.kind = "str" THEN Len(txt.s)
                     ELSE Len(h[txt.ref].items)]

Failure(code) ==
    [status |-> code, file_type |-> <<>>, text |-> NoneVal, name |-> NoneVal,
     email |-> NoneVal, phone |-> NoneVal, address |-> NoneVal,
     linkedin |-> NoneVal, skills |-> <<>>, text_length |-> 0]

NoResponse == Failure(0)

\* The locals and the answer when the handler returns or raises.
Outcome(txt, info, answer, made) ==
    [extracted_text |-> txt, contact_info |-> info, response |-> answer,
     calls |-> made]

\* No local extraction was made.
NotExtracted == Extracted(<<>>, <<>>)

\* No regex extraction was made.
NotMapped == [made |-> FALSE, raised |-> FALSE, info |-> EmptyInfo]

\* The regex extractors run whatever the structured contact_info holds.
RegexAlways(h, structured, txt) ==
    IF txt.kind # "str"
    THEN [made |-> TRUE, raised |-> TRUE, info |-> EmptyInfo]
    ELSE [made |-> TRUE, raised |-> FALSE, info |-> RegexInfo(txt.s)]

\* Lines 206 and 207 on the text txt: nothing to do when a structured
\* value is true, the regex extractors otherwise; they raise on a text
\* that is no string.
RegexStep(h, structured, txt) ==
    IF AnyValue(h, structured)
    THEN NotMapped
    ELSE IF txt.kind # "str"
         THEN [made |-> TRUE, raised |-> TRUE, info |-> EmptyInfo]
         ELSE [made |-> TRUE, raised |-> FALSE, info |-> RegexInfo(txt.s)]

\* An answer that is an error when no contact field was found.
AnswerNeedsField(ext, h, txt, structured, regex, made) ==
    LET made2 == IF regex.made THEN Append(made, "extract_contact_info")
                 ELSE made
        info == ContactInfo(h, structured, regex.info)
    IN  IF regex.raised \/ (txt.kind = "ref" /\ h[txt.ref].t = "num")
           \/ ~AnyValue(h, info)
        THEN Outcome(txt, structured, Failure(500), made2)
        ELSE Outcome(txt, info, Success(ext, txt, info, h), made2)

\* Lines 206 to 237, given the structured contact_info and what the regex
\* extractors gave: len() of a number raises.
Answer(ext, h, txt, structured, regex, made) ==
    LET made2 == IF regex.made THEN Append(made, "extract_contact_info")
                 ELSE made
        info == ContactInfo(h, structured, regex.info)
    IN  IF regex.raised \/ (txt.kind = "ref" /\ h[txt.ref].t = "num")
        THEN Outcome(txt, structured, Failure(500), made2)
        ELSE Outcome(txt, info, Success(ext, txt, info, h), made2)

\* Lines 147 to 237, given what local extraction gave.
Map(ext, h, st, local, made) ==
    LET txt == IF local.tried = <<>> THEN st.extracted_text ELSE Str(local.s)
        made1 == IF local.tried = <<>> THEN made
                 ELSE Append(made, IF ext = <<".", "p", "d", "f">>
                                   THEN "extract_text_from_pdf"
                                   ELSE "extract_text_from_docx")
    IN  IF local.raised
        THEN Outcome(st.extracted_text, EmptyInfo, Failure(500), made1)
        ELSE IF ~IsTrue(h, txt)
        THEN Outcome(txt, EmptyInfo, Failure(422), made1)
        ELSE IF LookupRaises(h, st.affinda_response)
        THEN Outcome(txt, EmptyInfo, Failure(500), made1)
        ELSE The({Answer(ext, h, txt, structured, regex, made1) :
                     structured \in {StructuredInfo(h, st.affinda_response)},
                     regex \in {RegexStep(h,
                                    StructuredInfo(h, st.affinda_response),
                                    txt)}})

\* Lines 141 to 237, from the locals st left by lines 121 to 138: local
\* extraction when there is no text yet, the answer 422 without text, the
\* mapping, the response; an exception on the way gives the answer 500.
Finish(ext, doc, h, st, made) ==
    IF st.raised
    THEN Outcome(st.extracted_text, EmptyInfo, Failure(500), made)
    ELSE The({Map(ext, h, st, local, made) :
                 local \in {IF IsTrue(h, st.extracted_text)
                            THEN NotExtracted
                            ELSE LocalText(ext, doc)}})

\* The request is served in steps: the check of the format, the read of the
\* file (line 115), the call of the service (lines 119 to 138), and the
\* rest of the handler (lines 141 to 237).
handler_vars ==
    <<file_path, affinda_key, file_extension, file_content, affinda_outcome,
      affinda_response, extracted_text, contact_info, response, calls,
      requests>>

\* What extract_contact_info has returned.
result_vars == <<extracted_info>>

extractor_vars == <<text, phone, skills, result_vars>>

locator_vars == <<obj, candidate_keys, found>>

\* Bytes no library reads.
NoDocument ==
    Document("raise", <<>>, "raise", <<>>, "raise", <<>>, "raise", <<>>, <<>>)

\* No request is being served.
HandlerIdle ==
    /\ file_path = <<>>
    /\ affinda_key = None
    /\ file_extension = <<>>
    /\ file_content = NoDocument
    /\ affinda_outcome = "none"
    /\ affinda_response = 0
    /\ extracted_text = Str(<<>>)
    /\ contact_info = EmptyInfo
    /\ response = NoResponse
    /\ calls = <<>>
    /\ requests = <<>>


\* ------------------------------------------------------- extract_phone runs

\* The longest text of PhoneTexts, in tokens after the prefix.
MaxPhoneTokens == 3

PhoneTokens ==
    { <<"+">>, <<"5", "5", "5", "5">>, <<"5", "5", "5", "5", "5">>,
      <<"5", "5", "5", "-">>, <<"(", "5", "5", "5", ")", " ">>, <<"1", " ">>,
      <<"x">> }

PhonePrefixes == { <<>>, <<"1", "2", "3", "4", " ", "x", " ">> }

TokenSeqs(tokens, n) == UNION {[1..k -> tokens] : k \in 0..n}

PhoneTexts ==
    {p \o Flatten(ts) : p \in PhonePrefixes, ts \in TokenSeqs(PhoneTokens, MaxPhoneTokens)}

Unset == [isNone |-> TRUE, s |-> <<"?">>]

\* Nothing has been returned yet.
NoResults ==
    /\ extracted_info =
          [full_name |-> Unset, email |-> Unset, phone |-> Unset,
           address |-> Unset, linkedin |-> Unset, skills |-> <<>>]

InitPhone ==
    /\ HandlerIdle
    /\ pc = "phone"
    /\ text \in PhoneTexts
    /\ phone = Unset
    /\ skills = <<>>
    /\ NoResults
    /\ heap = <<>>
    /\ obj = 0
    /\ candidate_keys = <<>>
    /\ found = [kind |-> "none", ref |-> 0]

ExtractPhone ==
    /\ pc = "phone"
    /\ phone' = extract_phone(text)
    /\ pc' = "done"
    /\ UNCHANGED <<text, skills, result_vars, heap, locator_vars, handler_vars>>

NextPhone == ExtractPhone

SpecPhone == InitPhone /\ [][NextPhone]_vars

\* ------------------------------------------------------ extract_skills runs

\* The most items a generated skills section holds.
MaxSkillItems == 22

SkillFirstLetters == <<"g", "r", "j", "p", "c">>

SkillSecondLetters == <<"o", "u", "s", "y", "a">>

\* Twenty-five skill names of two letters, all different.
SkillPool ==
    [j \in 1..25 |-> <<SkillFirstLetters[((j - 1) \div 5) + 1],
                       SkillSecondLetters[((j - 1) % 5) + 1]>>]

\* The k-th item of a section that repeats its names with period m: every
\* second round spells the name with a capital.
SkillItem(k, m) ==
    LET name == SkillPool[((k - 1) % m) + 1]
    IN  IF ((k - 1) \div m) % 2 = 1 THEN <<UpperChar(name[1]), name[2]>> ELSE name

SkillPeriods == {1, 3, 21, 25}

\* The delimiters of the sections of up to MaxSkillItems items.
SkillDelimiters == { <<",">>, <<";", " ">>, <<" ", Bullet, " ">> }

SkillSectionHeads ==
    { <<>>, <<"S", "k", "i", "l", "l", "s", ":", " ">>,
      <<"J", "o", "\n", "S", "K", "I", "L", "L", "S", ":">>,
      <<"E", "x", "p", "e", "r", "t", "i", "s", "e", ":", "\n">> }

SkillSectionTails == { <<>>, <<"\n", "\n", "g", "o", ",", "x", "x">> }

RECURSIVE JoinItems(_, _, _)
JoinItems(n, m, d) ==
    IF n = 0 THEN <<>>
    ELSE IF n = 1 THEN SkillItem(1, m)
    ELSE JoinItems(n - 1, m, d) \o d \o SkillItem(n, m)

Repeat(c, n) == [i \in 1..n |-> c]

\* Sections with items the filter of line 223 is about (one character,
\* 49 and 50 characters, dashes and blanks around an item, empty items),
\* and a long section whose second item repeats the first in another case.
SpecialSkillTexts ==
    { <<"S", "k", "i", "l", "l", "s", ":", " ", "P", "y", "t", "h", "o", "n",
        ",", " ", "p", "y", "t", "h", "o", "n", ",", " ", "G", "o">>,
      <<"S", "k", "i", "l", "l", "s", ":", " ", "C", ",", " ", "R", ",", "G", "o">>,
      <<"S", "k", "i", "l", "l", "s", ":", "-", " ", "g", "o", " ", "-", ",", ",",
        " ", "|", "G", "O", " ">>,
      <<"S", "k", "i", "l", "l", "s", ":">> \o Repeat("a", 49) \o <<",", "g", "o">>,
      <<"S", "k", "i", "l", "l", "s", ":">> \o Repeat("a", 50) \o <<",", "g", "o">>,
      <<"S", "k", "i", "l", "l", "s", ":">>,
      <<"s", "k", "i", "l", "l", "s", " ", "g", "o">>,
      <<"S", "k", "i", "l", "l", "s", ":", "G", "o", ",">>
         \o JoinItems(MaxSkillItems, 25, <<",">>) }

\* The most items of a generated section that has one item on a line.
MaxSkillLines == 3

SkillTexts ==
    {h \o JoinItems(n, m, d) \o e :
        h \in SkillSectionHeads, n \in 0..MaxSkillItems, m \in SkillPeriods,
        d \in SkillDelimiters, e \in SkillSectionTails}
    \cup {h \o JoinItems(n, m, <<"\n">>) \o e :
            h \in SkillSectionHeads, n \in 0..MaxSkillLines,
            m \in SkillPeriods, e \in SkillSectionTails}
    \cup SpecialSkillTexts

InitSkills ==
    /\ HandlerIdle
    /\ pc = "skills"
    /\ text \in SkillTexts
    /\ phone = Unset
    /\ skills = <<>>
    /\ NoResults
    /\ heap = <<>>
    /\ obj = 0
    /\ candidate_keys = <<>>
    /\ found = [kind |-> "none", ref |-> 0]

ExtractSkills ==
    /\ pc = "skills"
    /\ skills' = extract_skills(text)
    /\ pc' = "done"
    /\ UNCHANGED <<text, phone, result_vars, heap, locator_vars, handler_vars>>

NextSkills == ExtractSkills

SpecSkills == InitSkills /\ [][NextSkills]_vars

\* ------------------------------------------------ extract_contact_info runs

(***************************************************************************)
(* The texts given to extract_contact_info.  Addresses: well formed, in    *)
(* upper case, with a one-letter or no top-level domain, followed by a     *)
(* digit, followed by a pipe; alone or before a second address.            *)
(***************************************************************************)
EmailHeads == { <<>>, <<"M", "a", "i", "l", ":", " ">>, <<"%">> }

EmailFirst ==
    { <<"a", "@", "b", ".", "c", "o", "m">>, <<"A", ".", "B", "@", "X", ".", "I", "o">>, <<"a", "@", "b", ".", "c">>, <<"a", "n", "n", "@", "x", ".", "i", "o", "|", "a", "n", "n">>, <<"a", "@", "b", ".", "c", "o", "m", "1">>,
      <<"a", "_", "b", "@", "c", "-", "d", ".", "o", "r", "g">>, <<"a", "@", "b">> }

EmailGaps == { <<" ", "a", "n", "d", " ">>, <<",", " ">>, <<"|">> }

EmailSecond == { <<>>, <<"c", "@", "d", ".", "o", "r", "g">>, <<"C", "@", "D", ".", "O", "R", "G">> }

EmailTexts ==
    {h \o f \o g \o s :
        h \in EmailHeads, f \in EmailFirst, g \in EmailGaps, s \in EmailSecond}

\* Profile URLs: with and without scheme and host prefix, in both letter
\* cases, alone, in a sentence, after a label.
LinkedinHeads == { <<>>, <<"s", "e", "e", " ">>, <<"L", "i", "n", "k", "e", "d", "I", "n", ":", " ">> }

LinkedinSchemes ==
    { <<>>, <<"h", "t", "t", "p", "s", ":", "/", "/">>, <<"h", "t", "t", "p", ":", "/", "/">>, <<"H", "T", "T", "P", "S", ":", "/", "/">>, <<"H", "t", "t", "p", ":", "/", "/">>, <<"w", "w", "w", ".">>,
      <<"h", "t", "t", "p", "s", ":", "/", "/", "w", "w", "w", ".">> }

LinkedinHosts == { <<"l", "i", "n", "k", "e", "d", "i", "n", ".", "c", "o", "m", "/", "i", "n", "/">>, <<"L", "i", "n", "k", "e", "d", "I", "n", ".", "c", "o", "m", "/", "i", "n", "/">> }

LinkedinIds == { <<"a", "n", "n">>, <<"a", "n", "n", "-", "l", "e", "e", "/">> }

LinkedinTails == { <<>>, <<" ", "x">> }

LinkedinTexts ==
    {h \o s \o o \o i \o e :
        h \in LinkedinHeads, s \in LinkedinSchemes, o \in LinkedinHosts,
        i \in LinkedinIds, e \in LinkedinTails}

\* Names: a line of two to five capitalized words, with a title, with a
\* middle initial, in lower case, of one word, after a line that is no
\* name, before a labeled line.
NameFirstLines == { <<>>, <<"C", "V", " ", "2", "0", "2", "4", "\n">> }

NameLinesTried ==
    { <<"A", "n", "n", " ", "L", "e", "e">>, <<"D", "r", ".", " ", "A", "n", "n", " ", "L", "e", "e">>, <<"A", "n", "n", " ", "B", ".", " ", "L", "e", "e">>, <<"A", "n", "n", " ", "L", "e", "e", " ", "R", "a", "y", " ", "F", "o", "x", " ", "K", "i", "m">>,
      <<"R", "E", "S", "U", "M", "E">>, <<"a", "n", "n", " ", "l", "e", "e">>, <<"A", "n", "n">>, <<"P", "r", "o", "f", ".", " ", " ", "B", "o", " ", "R", "a", "y">> }

NameLabeledLines ==
    { <<>>, <<"\n", "N", "a", "m", "e", ":", " ", "B", "o", " ", "R", "a", "y">>, <<"\n", "F", "u", "l", "l", " ", "N", "a", "m", "e", ":", " ", " ", "A", "l", " ", "B", "o", " ", "C", "y", " ", "D", "i", " ", "E", "d">>,
      <<"\n", "A", "p", "p", "l", "i", "c", "a", "n", "t", ":", " ", "B", "o">>, <<"\n", "n", "a", "m", "e", ":", " ", "b", "o", " ", "r", "a", "y", "\n", "s", "k", "i", "l", "l", "s">>,
      <<"\n", "C", "a", "n", "d", "i", "d", "a", "t", "e", " ", "N", "a", "m", "e", ":", " ", "B", "o", " ", "R", "a", "y", " ", "F", "o", "x">> }

NameTexts ==
    {a \o b \o c :
        a \in NameFirstLines, b \in NameLinesTried, c \in NameLabeledLines}

\* Texts with little or nothing to find: empty, blank, punctuation, headers
\* with nothing after them.
PlainTexts ==
    { <<>>, <<" ">>, <<"\n">>, <<".", ".", ".">>, <<"(", ")", "-", "+">>, <<"@">>, <<"A", "d", "d", "r", "e", "s", "s", ":", " ">>,
      <<"S", "k", "i", "l", "l", "s", ":">>, <<"N", "a", "m", "e", ":">>, <<"l", "i", "n", "k", "e", "d", "i", "n", ".", "c", "o", "m", "/", "i", "n", "/">>, <<",", ";", "|">>, <<"!", "!", "!">>,
      <<"a", "@", "b">>, <<"+">>, <<"S", "k", "i", "l", "l", "s", ":", " ", ",">>, <<"A", "d", "d", "r", "e", "s", "s", ":", "\n">>, <<"L", "o", "c", "a", "t", "i", "o", "n", ":", " ", " ", "x">>,
      <<"-", " ", "-", " ", "-">>, <<"1", "2", "3", "4">>, <<"(", "5", "5", "5", ")">> }

ContactTexts == EmailTexts \cup LinkedinTexts \cup NameTexts \cup PlainTexts

InitContact ==
    /\ HandlerIdle
    /\ pc = "contact"
    /\ text \in ContactTexts
    /\ phone = Unset
    /\ skills = <<>>
    /\ NoResults
    /\ heap = <<>>
    /\ obj = 0
    /\ candidate_keys = <<>>
    /\ found = [kind |-> "none", ref |-> 0]

ExtractContactInfo ==
    /\ pc = "contact"
    /\ extracted_info' = extract_contact_info(text)
    /\ pc' = "done"
    /\ UNCHANGED <<text, phone, skills, heap, locator_vars, handler_vars>>

NextContact == ExtractContactInfo

SpecContact == InitContact /\ [][NextContact]_vars


\* --------------------------------------------------- _recursive_search runs

(***************************************************************************)
(* The structures searched: three composite nodes, 1 (the root, a          *)
(* mapping), 2 and 3, over the strings "", "A" and "B" at references 4, 5  *)
(* and 6.  Node 1 may hold node 2, node 2 may hold node 3, and node 3 may  *)
(* hold node 1 again, which closes a cycle.                                *)
(***************************************************************************)
LocatorKeys ==
    {<<"n", "a", "m", "e">>, <<"f", "u", "l", "l", "_", "n", "a", "m", "e">>,
     <<"d", "a", "t", "a">>, <<"x">>}

LocatorScalars == {4, 5, 6}

\* The mappings of at most two entries with keys of K and values of V.
DictsOf(K, V) ==
    {JDict(<<>>)}
    \cup {JDict(<<Entry(k, v)>>) : k \in K, v \in V}
    \cup {JDict(<<Entry(e[1], e[2]), Entry(e[3], e[4])>>) :
             e \in {f \in K \X V \X K \X V : f[1] # f[3]}}

\* The sequences of at most one element of V.
ListsOf(V) == {JList(<<>>)} \cup {JList(<<Entry(<<>>, v)>>) : v \in V}

Holds(node, r) == \E i \in DOMAIN node.items : node.items[i].v = r

LocatorHeap(n1, n2, n3) ==
    [r \in 1..6 |->
        CASE r = 1 -> n1
          [] r = 2 -> n2
          [] r = 3 -> n3
          [] r = 4 -> JStr(<<>>)
          [] r = 5 -> JStr(<<"A">>)
          [] r = 6 -> JStr(<<"B">>)]

InitLocator ==
    /\ HandlerIdle
    /\ pc = "search"
    /\ \E n1 \in DictsOf(LocatorKeys, LocatorScalars \cup {2}) :
         \E n2 \in IF Holds(n1, 2)
                   THEN DictsOf(LocatorKeys, LocatorScalars \cup {3})
                           \cup ListsOf(LocatorScalars \cup {3})
                   ELSE {JDict(<<>>)} :
           \E n3 \in IF Holds(n2, 3)
                     THEN {d \in DictsOf({<<"n", "a", "m", "e">>, <<"x">>},
                                           LocatorScalars \cup {1}) :
                              Len(d.items) <= 1}
                     ELSE {JDict(<<>>)} :
             heap = LocatorHeap(n1, n2, n3)
    /\ obj = 1
    /\ candidate_keys = NameKeys
    /\ found = NotFound
    /\ text = <<>>
    /\ phone = Unset
    /\ skills = <<>>
    /\ NoResults

SearchStructure ==
    /\ pc = "search"
    /\ found' = _recursive_search(heap, obj, candidate_keys)
    /\ pc' = "done"
    /\ UNCHANGED <<extractor_vars, heap, obj, candidate_keys, handler_vars>>

NextLocator == SearchStructure

SpecLocator == InitLocator /\ [][NextLocator]_vars

\* ------------------------------------------------ extract_text_from_pdf runs

(***************************************************************************)
(* extract_text_from_pdf in the steps of its fallbacks: pdfplumber, then   *)
(* OCR or PyPDF2, on files that pdfplumber opens or not, with pages that   *)
(* give a text, a blank text, nothing or an exception, that PyPDF2 reads   *)
(* or not, and on which OCR runs or fails.  calls holds the parsers        *)
(* attempted so far, extracted_text the text returned.                     *)
(***************************************************************************)
PdfPages ==
    {PageText(<<>>), PageText(<<" ", "\n">>), PageText(<<"A", "n", "n", " ", "L", "e", "e">>), PageError}

\* The most pages of a generated file.
MaxPdfPages == 2

PdfPageSeqs == UNION {[1..n -> PdfPages] : n \in 0..MaxPdfPages}

PdfFiles ==
    {Document(d.plumber, d.pages, r.pypdf2, r.pages2, o.ocr, o.scans,
              "raise", <<>>, <<>>) :
        d \in {[plumber |-> "raise", pages |-> <<>>]}
              \cup {[plumber |-> "ok", pages |-> p] : p \in PdfPageSeqs},
        r \in {[pypdf2 |-> "raise", pages2 |-> <<>>]}
              \cup {[pypdf2 |-> "ok", pages2 |-> p] :
                      p \in {<<>>, <<<<>>>>, <<<<" ", "B", "o", " ", "R", "a", "y", " ">>>>,
                             <<<<>>, <<"B", "o">>, <<"R", "a", "y">>>>}},
        o \in {[ocr |-> "raise", scans |-> <<>>]}
              \cup {[ocr |-> "ok", scans |-> p] :
                      p \in {<<>>, <<<<" ", " ">>>>, <<<<"C", "y", " ", "D", "e", "e", "\n">>, <<" ">>>>}}}

\* Lines 73 to 88: the texts of the pages that gave one, joined; a page
\* whose extraction raises is passed over.
PlumberText(doc) ==
    LET read == SelectSeq(doc.pages, LAMBDA p : ~p.raised /\ Len(p.s) > 0)
    IN  Join([i \in DOMAIN read |-> read[i].s], <<"\n">>)

\* A first step that returns a blank text as it is.
AfterPlumberNoOcr(doc) ==
    IF doc.plumber = "ok" THEN "done" ELSE "pypdf2"

\* Where the function goes after pdfplumber: to PyPDF2 when it raised
\* (line 98), to OCR when its text is blank (line 91), to the return of
\* line 95 otherwise.
AfterPlumber(doc) ==
    IF doc.plumber = "ok"
    THEN IF Len(Strip(PlumberText(doc))) = 0 THEN "ocr" ELSE "done"
    ELSE "pypdf2"

InitPdf ==
    /\ pc = "pdf"
    /\ file_content \in PdfFiles
    /\ file_path = <<>>
    /\ affinda_key = None
    /\ file_extension = <<>>
    /\ affinda_outcome = "none"
    /\ affinda_response = 0
    /\ extracted_text = Str(<<>>)
    /\ contact_info = EmptyInfo
    /\ response = NoResponse
    /\ calls = <<>>
    /\ requests = <<>>
    /\ text = <<>>
    /\ phone = Unset
    /\ skills = <<>>
    /\ NoResults
    /\ heap = <<>>
    /\ obj = 0
    /\ candidate_keys = <<>>
    /\ found = [kind |-> "none", ref |-> 0]

\* Lines 64 to 96: pdfplumber; its text is returned unless it is blank.
PdfPlumber ==
    /\ pc = "pdf"
    /\ calls' = Append(calls, "pdfplumber")
    /\ pc' = AfterPlumber(file_content)
    /\ extracted_text' = IF AfterPlumber(file_content) = "done"
                         THEN Str(Strip(PlumberText(file_content)))
                         ELSE extracted_text
    /\ UNCHANGED <<file_path, affinda_key, file_extension, file_content,
                   affinda_outcome, affinda_response, contact_info, response,
                   requests, heap>>
    /\ UNCHANGED <<extractor_vars, locator_vars>>

\* Lines 92 and 93: what OCR gives is returned, "" when it fails.
PdfOcr ==
    /\ pc = "ocr"
    /\ calls' = Append(calls, "ocr")
    /\ extracted_text' = Str(extract_text_from_pdf_with_ocr(file_content))
    /\ pc' = "done"
    /\ UNCHANGED <<file_path, affinda_key, file_extension, file_content,
                   affinda_outcome, affinda_response, contact_info, response,
                   requests, heap>>
    /\ UNCHANGED <<extractor_vars, locator_vars>>

\* Lines 97 to 117: PyPDF2; when it fails too the function raises.
PdfPyPDF2 ==
    /\ pc = "pypdf2"
    /\ calls' = Append(calls, "PyPDF2")
    /\ IF file_content.pypdf2 = "ok"
       THEN /\ extracted_text' =
                  Str(Strip(Join(SelectSeq(file_content.pages2, NonEmpty),
                                 <<"\n">>)))
            /\ pc' = "done"
       ELSE /\ extracted_text' = extracted_text
            /\ pc' = "raised"
    /\ UNCHANGED <<file_path, affinda_key, file_extension, file_content,
                   affinda_outcome, affinda_response, contact_info, response,
                   requests, heap>>
    /\ UNCHANGED <<extractor_vars, locator_vars>>

NextPdf == PdfPlumber \/ PdfOcr \/ PdfPyPDF2

SpecPdf == InitPdf /\ [][NextPdf]_vars


\* ------------------------------------------- _recursive_search priority runs

(***************************************************************************)
(* Acyclic structures in which the places of an alias compete: the root, a *)
(* mapping of at most two entries, holds strings and the nodes 2 and 3     *)
(* under aliases, container keys and another key, in either order; node 2  *)
(* is a mapping or a sequence that may hold node 3; node 3 is a mapping of *)
(* strings.                                                                *)
(***************************************************************************)
PriorityKeys ==
    {<<"n", "a", "m", "e">>, <<"f", "u", "l", "l", "_", "n", "a", "m", "e">>, <<"d", "a", "t", "a">>, <<"p", "r", "o", "f", "i", "l", "e">>, <<"x">>}

\* The mappings of at most one entry with a key of K and a value of V.
SmallDictsOf(K, V) ==
    {JDict(<<>>)} \cup {JDict(<<Entry(k, v)>>) : k \in K, v \in V}

InitPriority ==
    /\ HandlerIdle
    /\ pc = "search"
    /\ \E n1 \in DictsOf(PriorityKeys, LocatorScalars \cup {2, 3}) :
         \E n2 \in IF Holds(n1, 2)
                   THEN SmallDictsOf({<<"n", "a", "m", "e">>, <<"f", "u", "l", "l", "_", "n", "a", "m", "e">>, <<"x">>},
                                     LocatorScalars \cup {3})
                           \cup ListsOf({5, 3})
                   ELSE {JDict(<<>>)} :
           \E n3 \in IF Holds(n1, 3) \/ Holds(n2, 3)
                     THEN SmallDictsOf({<<"n", "a", "m", "e">>, <<"f", "u", "l", "l", "_", "n", "a", "m", "e">>},
                                       LocatorScalars)
                     ELSE {JDict(<<>>)} :
             heap = LocatorHeap(n1, n2, n3)
    /\ obj = 1
    /\ candidate_keys = NameKeys
    /\ found = NotFound
    /\ text = <<>>
    /\ phone = Unset
    /\ skills = <<>>
    /\ NoResults

SpecPriority == InitPriority /\ [][NextLocator]_vars


\* --------------------------------------------------------- parse_resume runs

\* The decoded response as a tree: a node whose entries hold their values
\* themselves.  The nodes of a tree in preorder, numbered from ref on, make
\* the heap.
RECURSIVE TreeSize(_)
TreeSize(tree) ==
    1 + Len(Flatten([i \in DOMAIN tree.items |->
                        [j \in 1..TreeSize(tree.items[i].v) |-> j]]))

RECURSIVE Preorder(_, _)
Preorder(tree, ref) ==
    LET kid(i) ==
            ref + 1 + Len(Flatten([k \in 1..(i - 1) |->
                             [j \in 1..TreeSize(tree.items[k].v) |-> j]]))
    IN  <<[tree EXCEPT !.items =
              [i \in DOMAIN tree.items |-> Entry(tree.items[i].k, kid(i))]]>>
        \o Flatten([i \in DOMAIN tree.items |->
                       Preorder(tree.items[i].v, kid(i))])

\* resp.json()
ToHeap(tree) == Preorder(tree, 1)

\* The transcript the service sends, and the text of the document.
AffindaTranscript == <<"A", "n", "n", " ", "L", "e", "e", "\n", "a", "n", "n", "@", "x", ".", "i", "o", "\n", "S", "k", "i", "l", "l", "s", ":", " ", "G", "o", ",", " ", "S", "Q", "L">>

DocumentText == <<"B", "o", " ", "R", "a", "y", "\n", "b", "o", "@", "y", ".", "i", "o", "\n", "+", "1", " ", "5", "5", "5", " ", "0", "1", "0", " ", "2", "2", "2", "2", "\n", "S", "k", "i", "l", "l", "s", ":", " ", "C", ",", " ", "R", "u", "s", "t">>

\* The contact fields a response carries.
ProfileOptions ==
    { <<>>,
      <<Entry(<<"n", "a", "m", "e">>, JStr(<<"A", "n", "n", " ", "L", "e", "e">>))>>,
      <<Entry(<<"n", "a", "m", "e">>, JStr(<<>>)), Entry(<<"e", "m", "a", "i", "l">>, JStr(<<"a", "n", "n", "@", "x", ".", "i", "o">>))>>,
      <<Entry(<<"p", "h", "o", "n", "e", "s">>, JList(<<Entry(<<>>, JStr(<<"+", "1", " ", "5", "5", "5", "-", "0", "0", "0", "0">>))>>))>>,
      <<Entry(<<"l", "o", "c", "a", "t", "i", "o", "n">>, JDict(<<Entry(<<"c", "i", "t", "y">>, JStr(<<"A", "u", "s", "t", "i", "n">>))>>))>>,
      <<Entry(<<"n", "a", "m", "e">>, JStr(<<"A", "n", "n", " ", "L", "e", "e">>)),
        Entry(<<"e", "m", "a", "i", "l">>, JStr(<<"a", "n", "n", "@", "x", ".", "i", "o">>)),
        Entry(<<"p", "h", "o", "n", "e", "s">>, JList(<<Entry(<<>>, JStr(<<"+", "1", " ", "5", "5", "5", "-", "0", "0", "0", "0">>))>>)),
        Entry(<<"l", "o", "c", "a", "t", "i", "o", "n">>, JStr(<<"A", "u", "s", "t", "i", "n", ",", " ", "T", "X">>)),
        Entry(<<"l", "i", "n", "k", "e", "d", "i", "n">>, JStr(<<"l", "i", "n", "k", "e", "d", "i", "n", ".", "c", "o", "m", "/", "i", "n", "/", "a", "n", "n">>))>> }

\* The skills a response carries: none, names that differ in case only, one
\* name more than SkillLimit, delimited strings, a string of delimiters, a
\* number, objects, an empty list before a later alias.
SkillsOptions ==
    { <<>>,
      <<Entry(<<"s", "k", "i", "l", "l", "s">>, JList(<<Entry(<<>>, JStr(<<"P", "y", "t", "h", "o", "n">>)),
                                  Entry(<<>>, JStr(<<"p", "y", "t", "h", "o", "n">>))>>))>>,
      <<Entry(<<"s", "k", "i", "l", "l", "s">>, JList([i \in 1..(SkillLimit + 1) |->
                                    Entry(<<>>, JStr(SkillPool[i]))]))>>,
      <<Entry(<<"s", "k", "i", "l", "l", "s">>, JStr(<<"P", "y", "t", "h", "o", "n", ",", " ", "J", "e", "n", "k", "i", "n", "s">>))>>,
      <<Entry(<<"s", "k", "i", "l", "l", "s">>, JStr(<<"D", "e", "s", "i", "g", "n", "\n", "P", "y", "t", "h", "o", "n">>))>>,
      <<Entry(<<"s", "k", "i", "l", "l", "s">>, JStr(<<",", " ">>))>>,
      <<Entry(<<"k", "e", "y", "w", "o", "r", "d", "s">>, JNum(7))>>,
      <<Entry(<<"s", "k", "i", "l", "l", "s">>, JList(<<Entry(<<>>,
            JDict(<<Entry(<<"n", "a", "m", "e">>, JStr(<<"G", "o">>))>>))>>))>>,
      <<Entry(<<"s", "k", "i", "l", "l", "s">>, JList(<<>>)),
        Entry(<<"e", "x", "p", "e", "r", "t", "i", "s", "e">>, JList(<<Entry(<<>>, JStr(<<"G", "o">>))>>))>> }

\* Where the transcript sits in the response.
TranscriptOptions ==
    {"none", "text", "raw_text", "parsed_text", "data.text", "number"}

\* Where the fields sit: at the root, in the container "data", or below a
\* sequence under a key that is no container.
PlacementOptions == {"root", "data", "deep"}

TranscriptEntries(at) ==
    CASE at = "text" -> <<Entry(<<"t", "e", "x", "t">>, JStr(AffindaTranscript))>>
      [] at = "raw_text" -> <<Entry(<<"r", "a", "w", "_", "t", "e", "x", "t">>, JStr(AffindaTranscript))>>
      [] at = "parsed_text" ->
           <<Entry(<<"t", "e", "x", "t">>, JStr(<<>>)),
             Entry(<<"p", "a", "r", "s", "e", "d", "_", "t", "e", "x", "t">>, JStr(AffindaTranscript))>>
      [] at = "number" -> <<Entry(<<"t", "e", "x", "t">>, JNum(7))>>
      [] OTHER -> <<>>

AffindaTree(fields, placement, at) ==
    LET nested == IF at = "data.text"
                  THEN <<Entry(<<"t", "e", "x", "t">>, JStr(AffindaTranscript))>>
                  ELSE <<>>
    IN  CASE placement = "root" ->
               JDict(TranscriptEntries(at) \o fields
                     \o IF at = "data.text"
                        THEN <<Entry(<<"d", "a", "t", "a">>, JDict(nested))>> ELSE <<>>)
          [] placement = "data" ->
               JDict(TranscriptEntries(at)
                     \o <<Entry(<<"d", "a", "t", "a">>, JDict(fields \o nested))>>)
          [] placement = "deep" ->
               JDict(TranscriptEntries(at)
                     \o <<Entry(<<"x">>, JList(<<Entry(<<>>, JDict(fields))>>))>>
                     \o IF at = "data.text"
                        THEN <<Entry(<<"d", "a", "t", "a">>, JDict(nested))>> ELSE <<>>)

\* The documents the service may answer with: every choice of fields with
\* the transcript under "text" at the root, every placement of fields and
\* transcript for responses with no field, a name, or a skills string of
\* delimiters, and documents that are no mapping.
AffindaResponses ==
    {AffindaTree(p \o s, "root", "text") :
        p \in ProfileOptions, s \in SkillsOptions}
    \cup {AffindaTree(f, w, at) :
             f \in { <<>>,
                     <<Entry(<<"n", "a", "m", "e">>, JStr(<<"A", "n", "n", " ", "L", "e", "e">>))>>,
                     <<Entry(<<"s", "k", "i", "l", "l", "s">>, JStr(<<",", " ">>))>> },
             w \in PlacementOptions, at \in TranscriptOptions}
    \cup {JNull, JList(<<>>), JStr(<<"b", "u", "s", "y">>),
          JList(<<Entry(<<>>, JDict(<<Entry(<<"n", "a", "m", "e">>, JStr(<<"A", "n", "n", " ", "L", "e", "e">>))>>))>>)}

Lines(s) == SplitOn(s, {"\n"})

\* The files: one with a text layer, one of page images where OCR is not
\* installed, one only OCR reads, one only PyPDF2 reads, one nothing reads.
Documents ==
    { Document("ok", <<PageText(DocumentText)>>, "ok", <<DocumentText>>,
               "raise", <<>>, "ok", Lines(DocumentText), <<>>),
      Document("ok", <<PageText(<<>>), PageError>>, "ok", <<>>,
               "raise", <<>>, "ok", <<<<" ", " ">>>>, <<<<<<" ">>>>>>),
      Document("ok", <<PageText(<<" ", "\n">>)>>, "ok", <<>>,
               "ok", <<<<" ", " ">>, DocumentText>>, "ok", <<>>,
               <<<<<<"B", "o", " ", "R", "a", "y">>, <<" ">>, <<"b", "o", "@", "y", ".", "i", "o">>>>>>),
      Document("raise", <<>>, "ok", <<<<>>, DocumentText>>,
               "raise", <<>>, "raise", <<>>, <<>>),
      NoDocument }

FilePaths ==
    { <<"c", "v", ".", "p", "d", "f">>, <<"d", "o", "c", "s", "/", "C", "V", ".", "D", "O", "C", "X">>, <<"c", "v", ".", "d", "o", "c">>, <<"c", "v", ".", "t", "x", "t">>, <<"c", "v">>,
      <<"v", "1", ".", "2", "/", "c", "v">>, <<".", "p", "d", "f">> }

\* os.getenv("AFFINDA_API_KEY"): not set, set to nothing, set.
ApiKeys == {None, Some(<<>>), Some(<<"k", "e", "y">>)}

Init ==
    /\ pc = "start"
    /\ file_path \in FilePaths
    /\ affinda_key \in ApiKeys
    /\ file_extension = <<>>
    /\ file_content = NoDocument
    /\ affinda_outcome = "none"
    /\ affinda_response = 0
    /\ extracted_text = Str(<<>>)
    /\ contact_info = EmptyInfo
    /\ response = NoResponse
    /\ calls = <<>>
    /\ requests = <<>>
    /\ heap = <<>>
    /\ obj = 0
    /\ candidate_keys = <<>>
    /\ found = NotFound
    /\ text = <<>>
    /\ phone = Unset
    /\ skills = <<>>
    /\ NoResults

\* Lines 103 to 115: the format is checked and the read of the file begins.
Begin ==
    /\ pc = "start"
    /\ file_extension' = Lower(Suffix(file_path))
    /\ IF file_extension' \in SupportedFormats
       THEN /\ pc' = "download"
            /\ calls' = Append(calls, "download_file_from_storage")
            /\ response' = response
       ELSE /\ pc' = "done"
            /\ calls' = calls
            /\ response' = Failure(400)
    /\ UNCHANGED <<file_path, affinda_key, file_content, affinda_outcome,
                   affinda_response, extracted_text, contact_info, heap>>
    /\ UNCHANGED <<extractor_vars, locator_vars, requests>>

\* download_file_from_storage raises: HTTPException 404 for a file that is
\* not there, another exception (answered with 500) when the read fails.
DownloadFails ==
    /\ pc = "download"
    /\ \E code \in {404, 500} : response' = Failure(code)
    /\ pc' = "done"
    /\ UNCHANGED <<file_path, affinda_key, file_extension, file_content,
                   affinda_outcome, affinda_response, extracted_text,
                   contact_info, calls, heap>>
    /\ UNCHANGED <<extractor_vars, locator_vars, requests>>

\* The file is read (line 115).
DownloadReturns ==
    /\ pc = "download"
    /\ \E doc \in Documents : file_content' = doc
    /\ pc' = "affinda"
    /\ UNCHANGED <<file_path, affinda_key, file_extension, affinda_outcome,
                   affinda_response, extracted_text, contact_info, response,
                   calls, heap>>
    /\ UNCHANGED <<extractor_vars, locator_vars, requests>>

\* A test of the key that every environment passes.
KeyIgnored == TRUE

\* if affinda_key (line 123)
KeySet == ~affinda_key.isNone /\ Len(affinda_key.s) > 0

\* No key: lines 123 to 138 are skipped.
AffindaSkipped ==
    /\ pc = "affinda"
    /\ ~KeySet
    /\ pc' = "extract"
    /\ UNCHANGED <<file_path, affinda_key, file_extension, file_content,
                   affinda_outcome, affinda_response, extracted_text,
                   contact_info, response, calls, heap>>
    /\ UNCHANGED <<extractor_vars, locator_vars, requests>>

\* The locals after lines 123 to 138; an exception the handler of line 137
\* lets through is answered by the one of line 232.
AfterAffinda(st) ==
    /\ affinda_response' = st.affinda_response
    /\ extracted_text' = st.extracted_text
    /\ calls' = Append(calls, "parse_with_affinda")
    /\ IF st.raised
       THEN pc' = "done" /\ response' = Failure(500)
       ELSE pc' = "extract" /\ response' = response

\* The call of the service raises (transport, timeout, status, decoding).
AffindaRaises ==
    /\ pc = "affinda"
    /\ KeySet
    /\ affinda_outcome' = "raised"
    /\ \E st \in {TryAffinda(heap, FALSE)} : AfterAffinda(st)
    /\ UNCHANGED <<file_path, affinda_key, file_extension, file_content,
                   contact_info, heap>>
    /\ UNCHANGED <<extractor_vars, locator_vars, requests>>

\* The service answers with a JSON document.
AffindaAnswers ==
    /\ pc = "affinda"
    /\ KeySet
    /\ affinda_outcome' = "answered"
    /\ \E tree \in AffindaResponses :
         /\ heap' = ToHeap(tree)
         /\ \E st \in {TryAffinda(heap', TRUE)} : AfterAffinda(st)
    /\ UNCHANGED <<file_path, affinda_key, file_extension, file_content,
                   contact_info>>
    /\ UNCHANGED <<extractor_vars, locator_vars, requests>>

\* Lines 141 to 237: local extraction when there is no text yet, the mapping
\* and the response.
Respond ==
    /\ pc = "extract"
    /\ \E out \in {Finish(file_extension, file_content, heap,
                          Locals(FALSE, extracted_text, affinda_response),
                          calls)} :
          /\ extracted_text' = out.extracted_text
          /\ contact_info' = out.contact_info
          /\ response' = out.response
          /\ calls' = out.calls
    /\ pc' = "done"
    /\ UNCHANGED <<file_path, affinda_key, file_extension, file_content,
                   affinda_outcome, affinda_response, heap>>
    /\ UNCHANGED <<extractor_vars, locator_vars, requests>>

Next ==
    \/ Begin
    \/ DownloadFails
    \/ DownloadReturns
    \/ AffindaSkipped
    \/ AffindaRaises
    \/ AffindaAnswers
    \/ Respond

Spec == Init /\ [][Next]_vars

\* ------------------------------------------------- concurrent requests run

(***************************************************************************)
(* Several calls of parse_resume on one event loop.  Each call has its own *)
(* frame of local variables; a call runs from one await to the next        *)
(* without interruption and gives way at the read of the file (line 115)   *)
(* and at the call of the service (line 127).  The environment, and the    *)
(* key in it, is shared by all calls.  requests[r] holds the frame of call *)
(* r and what the storage and the service will answer to it.               *)
(***************************************************************************)
MaxRequests == 2

\* The locals of a call of parse_resume(file_path) that has not begun.
NewFrame(path) ==
    [pc |-> "start", file_path |-> path, file_extension |-> <<>>,
     file_content |-> NoDocument, heap |-> <<>>, affinda_response |-> 0,
     extracted_text |-> Str(<<>>), contact_info |-> EmptyInfo,
     response |-> NoResponse, calls |-> <<>>]

\* One frame used by every call, as module-level variables would be.
SharedFrame(reqs, r) == reqs[1].frame

\* The frame of call r.
FrameOf(reqs, r) == reqs[r].frame

\* Lines 103 to 115, up to the await of the read.
BeginFrame(f) ==
    LET ext == Lower(Suffix(f.file_path))
    IN  IF ext \in SupportedFormats
        THEN [f EXCEPT !.file_extension = ext, !.pc = "download",
                       !.calls = Append(@, "download_file_from_storage")]
        ELSE [f EXCEPT !.file_extension = ext, !.pc = "done",
                       !.response = Failure(400)]

\* The read of line 115 ends: with the bytes, or with an exception.
DownloadFrame(f, storage) ==
    IF storage.raised
    THEN [f EXCEPT !.pc = "done", !.response = Failure(storage.code)]
    ELSE [f EXCEPT !.file_content = storage.doc, !.pc = "affinda"]

\* Lines 119 to 138 with the key of the environment: no call without a
\* key, otherwise the call and what the handler makes of its end.
AffindaFrame(f, key, service) ==
    IF key.isNone \/ Len(key.s) = 0
    THEN [f EXCEPT !.pc = "extract"]
    ELSE The({[f EXCEPT !.heap = h,
                        !.affinda_response = st.affinda_response,
                        !.extracted_text = st.extracted_text,
                        !.calls = Append(@, "parse_with_affinda"),
                        !.pc = IF st.raised THEN "done" ELSE "extract",
                        !.response = IF st.raised THEN Failure(500) ELSE @] :
                 h \in {IF service.ok THEN ToHeap(service.tree) ELSE <<>>},
                 st \in {TryAffinda(IF service.ok THEN ToHeap(service.tree)
                                    ELSE <<>>, service.ok)}})

\* Lines 141 to 237.
RespondFrame(f) ==
    The({[f EXCEPT !.extracted_text = out.extracted_text,
                   !.contact_info = out.contact_info,
                   !.response = out.response,
                   !.calls = out.calls,
                   !.pc = "done"] :
            out \in {Finish(f.file_extension, f.file_content, f.heap,
                            Locals(FALSE, f.extracted_text,
                                   f.affinda_response), f.calls)}})

\* What the storage and the service answer.
StorageRaises(code) == [raised |-> TRUE, code |-> code, doc |-> NoDocument]

StorageReturns(doc) == [raised |-> FALSE, code |-> 0, doc |-> doc]

ServiceRaises == [ok |-> FALSE, tree |-> JNull]

ServiceAnswers(tree) == [ok |-> TRUE, tree |-> tree]

\* The calls that may arrive: a PDF the service answers for with a name, a
\* DOCX for which the service fails, a file of another format, a PDF that
\* is not in the storage.
Arrivals ==
    { [file_path |-> <<"c", "v", ".", "p", "d", "f">>,
       storage |-> StorageReturns(
           Document("ok", <<PageText(<<"B", "o", " ", "R", "a", "y", "\n", "b", "o", "@", "y", ".", "i", "o">>)>>, "ok", <<>>,
                    "raise", <<>>, "raise", <<>>, <<>>)),
       service |-> ServiceAnswers(
           JDict(<<Entry(<<"t", "e", "x", "t">>, JStr(<<"A", "n", "n", " ", "L", "e", "e">>)),
                   Entry(<<"n", "a", "m", "e">>, JStr(<<"A", "n", "n", " ", "L", "e", "e">>))>>))],
      [file_path |-> <<"a", "/", "c", "v", ".", "d", "o", "c", "x">>,
       storage |-> StorageReturns(
           Document("raise", <<>>, "raise", <<>>, "raise", <<>>,
                    "ok", <<<<"C", "y", " ", "F", "o", "x">>, <<"c", "y", "@", "z", ".", "i", "o">>>>, <<>>)),
       service |-> ServiceRaises],
      [file_path |-> <<"c", "v", ".", "t", "x", "t">>,
       storage |-> StorageRaises(404),
       service |-> ServiceRaises],
      [file_path |-> <<"n", "o", ".", "p", "d", "f">>,
       storage |-> StorageRaises(404),
       service |-> ServiceRaises] }

InitConcurrent ==
    /\ pc = "serve"
    /\ requests \in [1..MaxRequests ->
                        {[given |-> g, frame |-> NewFrame(g.file_path)] :
                            g \in Arrivals}]
    /\ affinda_key \in {None, Some(<<"k", "e", "y">>)}
    /\ file_path = <<>>
    /\ file_extension = <<>>
    /\ file_content = NoDocument
    /\ affinda_outcome = "none"
    /\ affinda_response = 0
    /\ extracted_text = Str(<<>>)
    /\ contact_info = EmptyInfo
    /\ response = NoResponse
    /\ calls = <<>>
    /\ heap = <<>>
    /\ obj = 0
    /\ candidate_keys = <<>>
    /\ found = NotFound
    /\ text = <<>>
    /\ phone = Unset
    /\ skills = <<>>
    /\ NoResults

\* Call r runs from its present await to the next one.
Resume(r, pos, f) ==
    /\ FrameOf(requests, r).pc = pos
    /\ requests' = [requests EXCEPT ![r].frame = f]
    /\ UNCHANGED <<pc, extractor_vars, locator_vars, heap, file_path,
                   affinda_key, file_extension, file_content,
                   affinda_outcome, affinda_response, extracted_text,
                   contact_info, response, calls>>

RequestBegins(r) ==
    Resume(r, "start", BeginFrame(FrameOf(requests, r)))

RequestReads(r) ==
    Resume(r, "download",
           DownloadFrame(FrameOf(requests, r), requests[r].given.storage))

RequestAsks(r) ==
    Resume(r, "affinda",
           AffindaFrame(FrameOf(requests, r), affinda_key,
                        requests[r].given.service))

RequestResponds(r) ==
    Resume(r, "extract", RespondFrame(FrameOf(requests, r)))

NextConcurrent ==
    \E r \in DOMAIN requests :
        \/ RequestBegins(r)
        \/ RequestReads(r)
        \/ RequestAsks(r)
        \/ RequestResponds(r)

SpecConcurrent == InitConcurrent /\ [][NextConcurrent]_vars



\* ---------------------------------------------- properties of extract_skills

EqualIgnoringCase(a, b) == Lower(a) = Lower(b)

\* The positions of a sequence of items that hold the first occurrence of
\* their item, letter case ignored.
FirstOccurrences(items) ==
    {j \in DOMAIN items :
        \A k \in 1..(j - 1) : ~EqualIgnoringCase(items[k], items[j])}

\* C9: for every text, extract_skills returns at most 20 entries, no two of
\* them equal ignoring letter case; the i-th entry is, in its first-seen
\* spelling, the i-th item of the skills section that no earlier item equals
\* ignoring case; "Skills: Python, python, Go" gives ["Python", "Go"].
C9_SkillsUniqueCappedOrdered ==
    pc = "done" =>
        LET items == SkillsFrom(text, 1)
            firsts == FirstOccurrences(items)
        IN  /\ Len(skills) <= 20
            /\ \A i, j \in DOMAIN skills :
                  i # j => ~EqualIgnoringCase(skills[i], skills[j])
            /\ Len(skills) = IF Cardinality(firsts) < 20
                             THEN Cardinality(firsts) ELSE 20
            /\ \A i \in DOMAIN skills :
                  \E j \in firsts :
                     /\ skills[i] = items[j]
                     /\ Cardinality({k \in firsts : k < j}) = i - 1
            /\ (text = <<"S", "k", "i", "l", "l", "s", ":", " ", "P", "y", "t",
                         "h", "o", "n", ",", " ", "p", "y", "t", "h", "o", "n",
                         ",", " ", "G", "o">>
                  => skills = << <<"P", "y", "t", "h", "o", "n">>, <<"G", "o">> >>)

\* A section of more than 20 different items, one of them repeated in
\* another letter case, has been cut to 20 skills.
C9_Witness ==
    /\ pc = "done"
    /\ Len(skills) = 20
    /\ LET items == SkillsFrom(text, 1)
       IN  /\ Cardinality(FirstOccurrences(items)) > 20
           /\ \E i, j \in DOMAIN items :
                 /\ i < j
                 /\ j <= 21
                 /\ items[i] # items[j]
                 /\ EqualIgnoringCase(items[i], items[j])

\* ----------------------------------------------- properties of extract_phone

\* s occurs in t as a run of consecutive characters.
OccursIn(s, t) ==
    \E i \in 0..(Len(t) - Len(s)) : SubSeq(t, i + 1, i + Len(s)) = s

DigitCount(s) == Cardinality({i \in DOMAIN s : s[i] \in Digits})

\* The text holds a match of one of the phone patterns.
HasPhoneCandidate(t) ==
    \E k \in DOMAIN phone_patterns : Search(t, FALSE, phone_patterns[k]).ok

\* C10: a value extract_phone returns is a substring of the text as written
\* and holds at least 10 digits, a '+' not counted; a text with no
\* phone-like candidate gives absent.
C10_PhoneHasTenDigits ==
    pc = "done" =>
        /\ ~phone.isNone => /\ OccursIn(phone.s, text)
                            /\ DigitCount(phone.s) >= 10
        /\ ~HasPhoneCandidate(text) => phone.isNone

\* ------------------------------------------- properties of _recursive_search

Children(h, r) == {h[r].items[i].v : i \in DOMAIN h[r].items}

RECURSIVE ReachFrom(_, _)
\* The references reached from those of the set seen, these included.
ReachFrom(h, seen) ==
    LET more == seen \cup UNION {Children(h, r) : r \in seen}
    IN  IF more = seen THEN seen ELSE ReachFrom(h, more)

Reach(h, r) == ReachFrom(h, {r})

\* No node under r is reached again from its own children.
Acyclic(h, r) ==
    \A n \in Reach(h, r) : n \notin ReachFrom(h, Children(h, n))

\* The places under r that satisfy an alias: a mapping node and the index
\* of an alias it holds with a non-empty value.
AliasHits(h, r, keys) ==
    {e \in Reach(h, r) \X DOMAIN keys :
        /\ h[e[1]].t = "dict"
        /\ HasKey(h[e[1]], keys[e[2]])
        /\ Truthy(h, ValueOf(h[e[1]], keys[e[2]]))}

\* C6: on an acyclic structure _recursive_search returns a non-empty value
\* whenever some mapping node at any depth holds a non-empty value under an
\* alias, returns absent when no node does, and returns the value stored
\* under the alias when exactly one place satisfies one.
C6_LocatorFindsAlias ==
    pc = "done" /\ Acyclic(heap, obj) =>
        LET hits == AliasHits(heap, obj, candidate_keys)
        IN  /\ hits # {} => found.kind = "val" /\ Truthy(heap, found.ref)
            /\ hits = {} => found = NotFound
            /\ \A e \in hits :
                  hits = {e}
                  => found = Found(ValueOf(heap[e[1]], candidate_keys[e[2]]))

\* The only alias with a value sits in node 3, under a sequence, and the
\* search has returned its value.
C6_Witness ==
    /\ pc = "done"
    /\ Acyclic(heap, obj)
    /\ heap[2].t = "list"
    /\ AliasHits(heap, obj, candidate_keys) = {<<3, 1>>}
    /\ found = Found(ValueOf(heap[3], candidate_keys[1]))

\* C7: _recursive_search ends with a result, a value or absent, on every
\* structure, the self-referential ones included.
C7_LocatorReturns ==
    pc = "done" => found.kind \in {"val", "none"}

\* ----------------------------------------------- properties of parse_resume

\* The handler made the call.
Called(name) == \E i \in DOMAIN calls : calls[i] = name

\* The request was answered with a record.
Served == pc = "done" /\ response.status = 200

\* The contact fields of the record.
Record ==
    [name |-> response.name, email |-> response.email,
     phone |-> response.phone, address |-> response.address,
     linkedin |-> response.linkedin, skills |-> response.skills]

\* The six structured lookups on the response of the service.
StructuredFields == StructuredInfo(heap, affinda_response)

\* One of the six structured lookups gave a non-empty value.
SomeStructuredField ==
    LET s == StructuredFields
    IN  \/ \E f \in {"full_name", "email", "phone", "address", "linkedin"} :
              IsTrue(heap, s[f])
        \/ s.skills # <<>>

\* A scalar field as the record shows it: the empty string when absent.
Shown(v) == IF IsTrue(heap, v) THEN v ELSE Str(<<>>)

\* An Optional[str] as the record shows it.
ShownOptional(o) == IF o.isNone THEN Str(<<>>) ELSE Str(o.s)

\* The record made of the structured lookups alone.
FromStructured ==
    LET s == StructuredFields
    IN  [name |-> Shown(s.full_name), email |-> Shown(s.email),
         phone |-> Shown(s.phone), address |-> Shown(s.address),
         linkedin |-> Shown(s.linkedin), skills |-> s.skills]

\* The record made of extract_contact_info(t) alone.
FromRegex(t) ==
    LET r == extract_contact_info(t)
    IN  [name |-> ShownOptional(r.full_name), email |-> ShownOptional(r.email),
         phone |-> ShownOptional(r.phone),
         address |-> ShownOptional(r.address),
         linkedin |-> ShownOptional(r.linkedin), skills |-> r.skills]

\* The outcome of the same request without a key.
NoKeyOutcome ==
    Finish(file_extension, file_content, <<>>, InitialLocals,
           <<"download_file_from_storage">>)

\* C1: with a key set, when the call of parse_with_affinda raises, the
\* request does not fail because of it: the handler goes on with the text
\* extracted locally and the regex extractors, and its outcome, record or
\* error, is the one of the same request served without a key.
C1_AffindaFailureDegrades ==
    pc = "done" /\ affinda_outcome = "raised" =>
        /\ response = NoKeyOutcome.response
        /\ extracted_text = NoKeyOutcome.extracted_text
        /\ contact_info = NoKeyOutcome.contact_info
        /\ Called("extract_text_from_pdf") \/ Called("extract_text_from_docx")
        /\ response.status = 200 => Called("extract_contact_info")
        /\ response.status = 500
              => LocalText(file_extension, file_content).raised

\* The call of the service raised and the record holds the text of the
\* document and the name the regex extractors found in it.
C1_Witness ==
    /\ Served
    /\ affinda_outcome = "raised"
    /\ Called("parse_with_affinda")
    /\ Called("extract_contact_info")
    /\ response.text = Str(DocumentText)
    /\ response.name = Str(<<"B", "o", " ", "R", "a", "y">>)

\* C2: when all six structured lookups (full_name, email, phone, address,
\* linkedin, skills) are empty, the record returned equals, field by
\* field, extract_contact_info of the same transcript, absent fields shown
\* as the empty string or list; no value of the structured response is in
\* it.
C2_EmptyLookupsGiveRegexRecord ==
    Served /\ ~SomeStructuredField =>
        /\ Called("extract_contact_info")
        /\ response.text.kind = "str"
        /\ Record = FromRegex(response.text.s)

\* The service answered with a mapping whose skills are a string of
\* delimiters only: the six lookups are empty, and the record holds what
\* the regex extractors find in the transcript.
C2_Witness ==
    /\ Served
    /\ affinda_outcome = "answered"
    /\ heap[affinda_response].t = "dict"
    /\ HasKey(heap[affinda_response], <<"s", "k", "i", "l", "l", "s">>)
    /\ ~SomeStructuredField
    /\ response.text = Str(AffindaTranscript)
    /\ response.email = Str(<<"a", "n", "n", "@", "x", ".", "i", "o">>)
    /\ response.skills = <<<<"G", "o">>, <<"S", "Q", "L">>>>

\* C3: when one of the six structured lookups is non-empty, the regex
\* extractors are not run and every field of the record is the structured
\* lookup alone, a field the response lacks being empty even when the
\* transcript holds a value the regex extractors find; no record mixes
\* values of the two sources.
C3_StructuredAllOrNothing ==
    /\ pc = "done" /\ SomeStructuredField =>
          /\ ~Called("extract_contact_info")
          /\ response.status = 200 => Record = FromStructured
    /\ Served =>
          \/ Record = FromStructured
          \/ response.text.kind = "str" /\ Record = FromRegex(response.text.s)

\* The response holds a name and no email, the transcript holds an email
\* the regex extractor finds, and the record has the name and no email.
C3_Witness ==
    /\ Served
    /\ SomeStructuredField
    /\ response.name = Str(<<"A", "n", "n", " ", "L", "e", "e">>)
    /\ response.text = Str(AffindaTranscript)
    /\ extract_email(response.text.s) = Some(<<"a", "n", "n", "@", "x", ".", "i", "o">>)
    /\ response.email = Str(<<>>)

\* The transcript parse_with_affinda found in the response of the service
\* is true.
TranscriptFound ==
    /\ affinda_outcome = "answered"
    /\ TranscriptOf(heap, affinda_response) # 0
    /\ Truthy(heap, TranscriptOf(heap, affinda_response))

\* The text the local extraction gives for the document.
LocalTranscript == Str(LocalText(file_extension, file_content).s)

\* C4 as stated: the text of the record is the transcript of the service
\* when the service answered with a non-empty one, and in every other
\* case, a service that answered without a transcript included, the text
\* extracted locally from the document.
C4_TranscriptLocalUnlessStructured ==
    Served =>
        IF TranscriptFound
        THEN response.text = ValueAt(heap, TranscriptOf(heap, affinda_response))
        ELSE response.text = LocalTranscript

\* C4: the text of the record is the transcript of the service when the
\* service answered with a non-empty one; when the service answered
\* without one it is json.dumps of the response and no local extraction
\* is made; it is the text extracted locally from the document when there
\* is no key or the call raised.
C4_TranscriptOrSerializedResponse ==
    Served =>
        /\ response.text = extracted_text
        /\ CASE TranscriptFound ->
                  /\ response.text
                        = ValueAt(heap, TranscriptOf(heap, affinda_response))
                  /\ ~Called("extract_text_from_pdf")
                  /\ ~Called("extract_text_from_docx")
             [] affinda_outcome = "answered" /\ ~TranscriptFound ->
                  /\ response.text
                        = Str(JsonDumps(heap, affinda_response))
                  /\ ~Called("extract_text_from_pdf")
                  /\ ~Called("extract_text_from_docx")
             [] OTHER ->
                  /\ response.text = LocalTranscript
                  /\ Called("extract_text_from_pdf")
                        \/ Called("extract_text_from_docx")

\* The service answered a mapping with a name and no transcript, the
\* document has a text layer, and the text of the record is the serialized
\* response.
C4_Witness ==
    /\ Served
    /\ affinda_outcome = "answered"
    /\ ~TranscriptFound
    /\ LocalTranscript = Str(DocumentText)
    /\ response.text = Str(<<"{", "\"", "n", "a", "m", "e", "\"", ":", " ", "\"", "A", "n", "n", " ", "L", "e", "e", "\"", "}">>)

\* C5: in every record, on the structured path and on the regex path, none
\* of name, email, phone, address, linkedin, skills is null: an absent
\* scalar is the empty string and absent skills the empty list.
C5_NoNullField ==
    Served =>
        /\ \A f \in {"name", "email", "phone", "address", "linkedin"} :
              /\ response[f].kind # "none"
              /\ ~(response[f].kind = "ref" /\ heap[response[f].ref].t = "null")
        /\ Len(response.skills) >= 0
        /\ \A f \in {"email", "phone", "address", "linkedin"} :
              contact_info[f] = NoneVal => response[f] = Str(<<>>)
        /\ contact_info.full_name = NoneVal => response.name = Str(<<>>)
        /\ contact_info.skills = <<>> => response.skills = <<>>

\* A record of the structured path with a name, no email and no skills,
\* and a record of the regex path with no address.
C5_Witness ==
    /\ Served
    /\ \/ /\ ~Called("extract_contact_info")
          /\ contact_info.email = NoneVal
          /\ response.email = Str(<<>>)
          /\ response.skills = <<>>
          /\ response.name = Str(<<"A", "n", "n", " ", "L", "e", "e">>)
       \/ /\ Called("extract_contact_info")
          /\ contact_info.address = NoneVal
          /\ response.address = Str(<<>>)

\* The items the skills of the record come from: those of the skills
\* section of the text on the regex path, the normalized value of the
\* skills lookup on the structured path.
SkillsSource ==
    IF Called("extract_contact_info")
    THEN SkillsFrom(response.text.s, 1)
    ELSE StructuredFields.skills

\* C8: in every record, on the structured path as on the regex path, skills
\* holds at most 20 entries, no two of them equal ignoring letter case, in
\* the order they were first seen in the source.
C8_RecordSkillsUniqueCapped ==
    Served =>
        LET firsts == FirstOccurrences(SkillsSource)
        IN  /\ Len(response.skills) <= SkillLimit
            /\ \A i, j \in DOMAIN response.skills :
                  i # j => ~EqualIgnoringCase(response.skills[i],
                                              response.skills[j])
            /\ \A i \in DOMAIN response.skills :
                  \E j \in firsts :
                     /\ response.skills[i] = SkillsSource[j]
                     /\ Cardinality({k \in firsts : k < j}) = i - 1


\* ---------------------------------------- properties of extract_contact_info

\* s has the shape local@domain.tld, the tld of two or more letters.
AddressShape(s) ==
    \E a \in DOMAIN s, d \in DOMAIN s :
        /\ 1 < a
        /\ a + 1 < d
        /\ d + 2 <= Len(s)
        /\ s[a] = "@"
        /\ s[d] = "."
        /\ \A i \in 1..(a - 1) : s[i] \in EmailLocalChars
        /\ \A i \in (a + 1)..(d - 1) : s[i] \in EmailDomainChars
        /\ \A i \in (d + 1)..Len(s) : s[i] \in Letters

\* A word begins or ends between the positions i - 1 and i of t.
Boundary(t, i) == IsWordAt(t, i - 1) # IsWordAt(t, i)

\* The places <<i, j>> of t where an address stands as a whole word.
Addresses(t) ==
    {e \in (DOMAIN t) \X (DOMAIN t) :
        /\ e[1] <= e[2]
        /\ Boundary(t, e[1])
        /\ Boundary(t, e[2] + 1)
        /\ AddressShape(SubSeq(t, e[1], e[2]))}

\* C11: extract_email returns, in lower case, the first substring of the
\* text in document order that has the shape local@domain.tld with a tld of
\* two or more letters, and absent when the text holds no such substring.
C11_EmailFirstAddress ==
    pc = "done" =>
        LET r == extracted_info.email
            occ == Addresses(text)
        IN  /\ occ = {} => r.isNone
            /\ occ # {} =>
                  /\ ~r.isNone
                  /\ \E e \in occ :
                        /\ r.s = Lower(SubSeq(text, e[1], e[2]))
                        /\ \A f \in occ : e[1] <= f[1]

\* u begins with a scheme, http:// or https://, in either letter case.
HasScheme(u) ==
    \/ StartsWith(Lower(u), <<"h", "t", "t", "p", ":", "/", "/">>)
    \/ StartsWith(Lower(u), <<"h", "t", "t", "p", "s", ":", "/", "/">>)

\* C12: a value returned by extract_linkedin carries exactly one scheme: it
\* is the match itself when the match begins with http:// or https://, and
\* "https://" followed by the match when the match has no scheme.
C12_LinkedinOneScheme ==
    pc = "done" /\ ~extracted_info.linkedin.isNone =>
        LET u == extracted_info.linkedin.s
            matched == SubSeq(u, Len(<<"h", "t", "t", "p", "s", ":", "/", "/">>) + 1, Len(u))
        IN  \/ HasScheme(u) /\ OccursIn(u, text)
            \/ /\ StartsWith(u, <<"h", "t", "t", "p", "s", ":", "/", "/">>)
               /\ OccursIn(matched, text)
               /\ ~HasScheme(matched)

ScalarFields == {"full_name", "email", "phone", "address", "linkedin"}

\* The text holds no letter and no digit.
PunctuationOnly(t) == \A i \in DOMAIN t : t[i] \notin Letters \cup Digits

\* C13: extract_contact_info returns, for every text, a record of exactly
\* the six keys; a scalar field is absent or a non-empty string and skills
\* is a list of non-empty strings; on the empty text and on punctuation
\* every scalar field is absent and skills is the empty list.
C13_ContactInfoTotal ==
    pc = "done" =>
        /\ DOMAIN extracted_info = ScalarFields \cup {"skills"}
        /\ \A k \in ScalarFields :
              extracted_info[k].isNone \/ Len(extracted_info[k].s) > 0
        /\ \A i \in DOMAIN extracted_info.skills :
              Len(extracted_info.skills[i]) > 0
        /\ PunctuationOnly(text) =>
              /\ \A k \in ScalarFields : extracted_info[k] = None
              /\ extracted_info.skills = <<>>

\* extract_contact_info("") has returned.
C13_Witness ==
    /\ pc = "done"
    /\ text = <<>>
    /\ \A k \in ScalarFields : extracted_info[k] = None
    /\ extracted_info.skills = <<>>

\* The whitespace-separated tokens of s, counted.
TokenCount(s) ==
    Cardinality({i \in DOMAIN s :
                    /\ s[i] \notin Whitespace
                    /\ i = 1 \/ s[i - 1] \in Whitespace})

\* C18: a name returned by extract_name has 2 to 4 whitespace-separated
\* tokens and does not begin with a title.
C18_NameTwoToFourTokens ==
    pc = "done" /\ ~extracted_info.full_name.isNone =>
        /\ TokenCount(extracted_info.full_name.s) >= NameWordsMin
        /\ TokenCount(extracted_info.full_name.s) <= NameWordsMax
        /\ \A k \in DOMAIN name_titles :
              ~StartsWith(extracted_info.full_name.s, name_titles[k])

\* The name of a line that begins with a title was returned without it.
C18_Witness ==
    /\ pc = "done"
    /\ text = <<"D", "r", ".", " ", "A", "n", "n", " ", "L", "e", "e", "\n", "n", "a", "m", "e", ":", " ", "b", "o", " ", "r", "a", "y", "\n", "s", "k", "i", "l", "l", "s">>
    /\ extracted_info.full_name = Some(<<"A", "n", "n", " ", "L", "e", "e">>)


\* The transcript is a text of at least one character.
TranscriptText(v) == v.kind = "str" /\ Len(v.s) > 0

C15_ScalarFieldsAreText ==
    Served =>
        \A f \in {"name", "email", "phone", "address", "linkedin"} :
            Record[f].kind = "str"


\* ------------------------------------------- properties of concurrent calls

RECURSIVE RunAlone(_, _, _, _)
\* The frame of a call that runs with no other call beside it, from the
\* frame f on until it waits at pos or has ended.
RunAlone(f, given, key, pos) ==
    IF f.pc = pos \/ f.pc = "done"
    THEN f
    ELSE CASE f.pc = "start" -> RunAlone(BeginFrame(f), given, key, pos)
           [] f.pc = "download" ->
                RunAlone(DownloadFrame(f, given.storage), given, key, pos)
           [] f.pc = "affinda" ->
                RunAlone(AffindaFrame(f, key, given.service), given, key, pos)
           [] f.pc = "extract" -> RunAlone(RespondFrame(f), given, key, pos)

\* C16: whatever the interleaving of the calls at their awaits, the locals
\* and the result of each call are those of the same call run alone on the
\* same file, storage and service answers.
C16_RequestsIndependent ==
    pc = "serve" =>
        \A r \in DOMAIN requests :
            requests[r].frame =
                RunAlone(NewFrame(requests[r].given.file_path),
                         requests[r].given, affinda_key,
                         requests[r].frame.pc)

\* The second call has returned its record while the first one, for
\* another file, still waits for the service.
C16_Witness ==
    /\ pc = "serve"
    /\ requests[1].frame.pc = "affinda"
    /\ requests[2].frame.pc = "done"
    /\ requests[2].frame.response.status = 200
    /\ requests[1].given # requests[2].given


\* The calls of the service made for the request.
AffindaCalls ==
    Cardinality({i \in DOMAIN calls : calls[i] = "parse_with_affinda"})

\* C17: the service is called at most once for a request, whether the call
\* fails or answers with nothing of use, and not at all when no key is
\* configured.
C17_ServiceCalledAtMostOnce ==
    /\ AffindaCalls <= 1
    /\ affinda_key.isNone \/ affinda_key.s = <<>> => AffindaCalls = 0

\* The call failed, was not repeated, and the record was made of the text
\* of the document.
C17_Witness ==
    /\ Served
    /\ affinda_outcome = "raised"
    /\ AffindaCalls = 1
    /\ Called("extract_contact_info")


\* ------------------------------- properties of the order of _recursive_search

\* The aliases, by their index, that the mapping node holds with a
\* non-empty value.
DirectHits(h, node, keys) ==
    {i \in DOMAIN keys :
        HasKey(node, keys[i]) /\ Truthy(h, ValueOf(node, keys[i]))}

\* The pairs of a container key of the node that holds a mapping and an
\* alias this mapping holds with a non-empty value.
ContainerHits(h, node, keys) ==
    {e \in (DOMAIN Containers) \X (DOMAIN keys) :
        /\ HasKey(node, Containers[e[1]])
        /\ h[ValueOf(node, Containers[e[1]])].t = "dict"
        /\ DirectHits(h, h[ValueOf(node, Containers[e[1]])], <<keys[e[2]]>>) # {}}

\* The children of the node, by their index, under which the search finds
\* a non-empty value.
ChildHits(h, node, keys) ==
    {j \in DOMAIN node.items :
        LET res == _recursive_search(h, node.items[j].v, keys)
        IN  res.kind = "val" /\ Truthy(h, res.ref)}

\* What the search at the mapping node r is to return: the value of the
\* earliest alias the node holds; failing that the value of the earliest
\* alias in the earliest container; failing that what the search finds
\* under the earliest child where it finds something.
ByPriority(h, r, keys) ==
    LET node == h[r]
        direct == DirectHits(h, node, keys)
        inner == ContainerHits(h, node, keys)
        below == ChildHits(h, node, keys)
    IN  IF direct # {}
        THEN Found(ValueOf(node,
                 keys[CHOOSE i \in direct : \A j \in direct : i <= j]))
        ELSE IF inner # {}
        THEN LET e == CHOOSE e \in inner : \A f \in inner :
                         e[1] < f[1] \/ (e[1] = f[1] /\ e[2] <= f[2])
             IN  Found(ValueOf(h[ValueOf(node, Containers[e[1]])],
                               keys[e[2]]))
        ELSE IF below # {}
        THEN _recursive_search(h,
                 node.items[CHOOSE i \in below : \A j \in below : i <= j].v,
                 keys)
        ELSE NotFound

\* C19: at every mapping node the search returns by a fixed priority: a
\* non-empty alias of the node itself, the earliest in the alias list
\* whatever the order of the node's keys; else a non-empty alias one level
\* in a container key that holds a mapping, containers and aliases in
\* their listed order; else the first non-empty result of the search under
\* the children in their order.
C19_LocatorPriority ==
    pc = "done" /\ Acyclic(heap, obj) =>
        /\ found = ByPriority(heap, obj, candidate_keys)
        /\ \A r \in Reach(heap, obj) :
              heap[r].t = "dict" =>
                  _recursive_search(heap, r, candidate_keys)
                      = ByPriority(heap, r, candidate_keys)

\* The root holds a mapping with a name under another key first and a
\* mapping with another name under the container key "data" after it; the
\* name in the container was returned.
C19_Witness ==
    /\ pc = "done"
    /\ heap[1] = JDict(<<Entry(<<"x">>, 2), Entry(<<"d", "a", "t", "a">>, 3)>>)
    /\ heap[2] = JDict(<<Entry(<<"n", "a", "m", "e">>, 5)>>)
    /\ heap[3] = JDict(<<Entry(<<"n", "a", "m", "e">>, 6)>>)
    /\ found = Found(6)


\* -------------------------------------- properties of _normalize_skills

\* The separators a skills string is to be split on.
ListedSeparators == {",", ";", "|", "\n"}

\* The trimmed non-empty pieces of s between runs of the separators cs.
TrimmedPieces(s, cs) ==
    LET pieces == SplitRuns(s, cs)
    IN  SelectSeq([i \in DOMAIN pieces |-> Strip(pieces[i])],
                  LAMBDA p : Len(p) > 0)

\* What the skills lookup found in the response of the service.
LocatedSkills == _recursive_search(heap, affinda_response, SkillsKeys)

\* C20: a skills string located in the structured response is split on
\* commas, semicolons, bars and newlines and on nothing else, and its
\* trimmed non-empty pieces are the skills of contact_info; "Python,
\* Jenkins" gives "Python" and "Jenkins".
C20_SkillsSplitOnListedSeparators ==
    /\ Served
    /\ ~Called("extract_contact_info")
    /\ affinda_response # 0
    /\ heap[affinda_response].t = "dict"
    /\ LocatedSkills.kind = "val"
    /\ heap[LocatedSkills.ref].t = "str"
    => contact_info.skills
          = TrimmedPieces(heap[LocatedSkills.ref].s, ListedSeparators)


\* ------------------------------------------ properties of the phone search

RECURSIVE CandidatesFrom(_, _)
\* The matches of the patterns from pattern k on: pattern by pattern, those
\* of one pattern from left to right.
CandidatesFrom(t, k) ==
    IF k > Len(phone_patterns)
    THEN <<>>
    ELSE FindAll(t, FALSE, phone_patterns[k]) \o CandidatesFrom(t, k + 1)

\* C21: extract_phone returns the first candidate, taking the patterns in
\* their priority order and the matches of each pattern in document order,
\* that passes the test of ten characters; a shorter candidate is passed
\* over for the next match and then the next pattern, and absent is
\* returned only when no match of any pattern passes.
C21_PhoneFirstPassingCandidate ==
    pc = "done" =>
        LET cands == CandidatesFrom(text, 1)
            passing == {i \in DOMAIN cands :
                           Len(CleanPhone(cands[i])) >= MinPhoneLen}
        IN  IF passing = {}
            THEN phone.isNone
            ELSE phone = Some(cands[CHOOSE i \in passing :
                                       \A j \in passing : i <= j])


\* ------------------------------------------- properties of the skill filter

RECURSIVE SectionFrom(_, _)
\* The skills section of the text: what follows the first header of
\* skill_headers, from header k on, that the text holds; empty without one.
SectionFrom(t, k) ==
    IF k > Len(skill_headers)
    THEN <<>>
    ELSE LET m == Search(t, TRUE, SkillPattern(skill_headers[k]))
         IN  IF m.ok THEN Group1(t, m) ELSE SectionFrom(t, k + 1)

\* The tokens of the section, split on the delimiters and trimmed.
TrimmedTokens(t) ==
    LET pieces == SplitOn(SectionFrom(t, 1),
                          {",", ";", "|", "\n", Bullet, MiddleDot})
    IN  [i \in DOMAIN pieces |-> Strip(StripChars(pieces[i], {" ", "-"}))]

\* C22: a trimmed token of the skills section is discarded exactly when it
\* is empty or longer than 49 characters: the skills returned are the
\* tokens of 1 to 49 characters, one-character skills such as "C" and "R"
\* included, less the repetitions and cut at 20 entries.
C22_SkillsKeepOneToFortyNine ==
    pc = "done" =>
        LET kept == SelectSeq(TrimmedTokens(text),
                        LAMBDA s : Len(s) >= 1 /\ Len(s) <= 49)
            firsts == FirstOccurrences(kept)
        IN  /\ Len(skills) = IF Cardinality(firsts) < SkillLimit
                             THEN Cardinality(firsts) ELSE SkillLimit
            /\ \A i \in DOMAIN skills :
                  \E j \in firsts :
                     /\ skills[i] = kept[j]
                     /\ Cardinality({k \in firsts : k < j}) = i - 1


\* ------------------------------------- properties of extract_text_from_pdf

Attempted(parser) == \E i \in DOMAIN calls : calls[i] = parser

\* The call of extract_text_from_pdf has ended, with a text or an error.
PdfEnded == pc \in {"done", "raised"}

\* C23: PyPDF2 is attempted exactly when pdfplumber raises, and after it;
\* OCR is attempted exactly when pdfplumber ends without error and its text
\* is blank; OCR that fails gives the empty text and no error; the function
\* raises exactly when pdfplumber and PyPDF2 have both failed; a file
\* without pages or with blank pages only, OCR finding nothing, gives "".
C23_PdfFallbackOrder ==
    /\ Len(calls) > 0 => calls[1] = "pdfplumber"
    /\ PdfEnded =>
          /\ Attempted("PyPDF2") <=> file_content.plumber = "raise"
          /\ Attempted("ocr") <=>
                /\ file_content.plumber = "ok"
                /\ \A i \in DOMAIN file_content.pages :
                      \/ file_content.pages[i].raised
                      \/ Len(Strip(file_content.pages[i].s)) = 0
          /\ ~(Attempted("ocr") /\ Attempted("PyPDF2"))
          /\ Attempted("ocr") /\ file_content.ocr = "raise"
                => pc = "done" /\ extracted_text = Str(<<>>)
          /\ pc = "raised" <=>
                file_content.plumber = "raise" /\ file_content.pypdf2 = "raise"
          /\ (/\ file_content.plumber = "ok"
              /\ \A i \in DOMAIN file_content.pages :
                    ~file_content.pages[i].raised
                    /\ Len(Strip(file_content.pages[i].s)) = 0
              /\ \A i \in DOMAIN file_content.scans :
                    Len(Strip(file_content.scans[i])) = 0)
                => pc = "done" /\ extracted_text = Str(<<>>)

\* A file of one blank page on which OCR fails has given the empty text,
\* after pdfplumber and OCR and without PyPDF2.
C23_Witness ==
    /\ pc = "done"
    /\ file_content.plumber = "ok"
    /\ file_content.pages = <<PageText(<<" ", "\n">>)>>
    /\ file_content.ocr = "raise"
    /\ calls = <<"pdfplumber", "ocr">>
    /\ extracted_text = Str(<<>>)

=============================================================================
